---- MODULE Spec2Model ----
(***************************************************************************)
(* Model of the rsgen token-stream core: the Tokens container             *)
(* (src/src/tokens.rs), its walk_custom iterator, the Java Custom          *)
(* implementation (src/src/java/mod.rs) and the rendering pass.            *)
(*                                                                         *)
(* A Tokens value is the sequence of its elements.  An Element is a        *)
(* record with the same five fields for every variant:                     *)
(*   kind   - the variant name                                             *)
(*   text   - the text of a Literal                                        *)
(*   custom - the item of a Custom / Registered element (a Java value)     *)
(*   con    - the container of a Push / Nested / Append sub-tree           *)
(*            ("Owned" or "Borrowed")                                      *)
(*   sub    - the elements of a Push / Nested / Append sub-tree, or the    *)
(*            one wrapped element of an Rc / Borrowed element              *)
(* Rendered text is a sequence of string fragments; "\n" is a line break,  *)
(* IndentUnit one level of indentation.                                    *)
(***************************************************************************)
EXTENDS Naturals, Sequences, FiniteSets, TLC

VARIABLES
    toks,     \* Tokens.elements of the Tokens value under construction
    op,       \* the last operation applied and its arguments
    before,   \* Tokens.elements as they were when that operation started
    result,   \* what the operation returned: "Ok", "Err" or "unit"
    output,   \* the String produced by the last to_string / to_file, <<>> otherwise
    last_extra,  \* the Extra of the last render, as the render left it
    interface  \* the java Interface being set up

vars == <<toks, op, before, result, output, last_extra, interface>>

----------------------------------------------------------------------------
(* Bounds of the model. *)

MaxLen == 3       \* growth operations need fewer top-level elements than this
MaxFmtLen == 4    \* the same for the trees of the rendering properties
MaxFileLen == 3   \* the same for the trees of the Java file properties
MaxQuoteLen == 3  \* a string typed character by character stops at this length
MaxSwiftLen == 3  \* growth operations on a Swift tree need fewer top-level elements than this
MaxLevelLen == 3  \* the same for the trees of Java primitives
MaxInterfaceLen == 2  \* an interface has at most this many methods, body lines, annotations

----------------------------------------------------------------------------
(* Java custom items, src/src/java/mod.rs *)

JAVA_LANG == "java.lang"
SEP == "."

NoCustom ==
    [tag |-> "NoCustom", package |-> "", name |-> "", boxed |-> "", arguments |-> <<>>]

\* Java::Primitive { primitive, boxed }
Primitive(primitive, boxed) ==
    [tag |-> "Primitive", package |-> "", name |-> primitive, boxed |-> boxed,
     arguments |-> <<>>]

\* Java::Class(Type { package, name, path: vec![], arguments })
Class(package, name, arguments) ==
    [tag |-> "Class", package |-> package, name |-> name, boxed |-> "",
     arguments |-> arguments]

\* Java::Local { name }
Local(name) ==
    [tag |-> "Local", package |-> "", name |-> name, boxed |-> "", arguments |-> <<>>]

INTEGER == Primitive("int", "Integer")

imported(package, name) == Class(package, name, <<>>)

\* Extra::default(): no package, nothing imported
DefaultExtra == [package |-> <<>>, imported |-> <<>>]

\* Extra::new(package)
ExtraNew(package) == [package |-> <<package>>, imported |-> <<>>]

----------------------------------------------------------------------------
(* Elements *)

El(kind, text, custom, con, sub) ==
    [kind |-> kind, text |-> text, custom |-> custom, con |-> con, sub |-> sub]

None == El("None", "", NoCustom, "", <<>>)
Spacing == El("Spacing", "", NoCustom, "", <<>>)
PushSpacing == El("PushSpacing", "", NoCustom, "", <<>>)
LineSpacing == El("LineSpacing", "", NoCustom, "", <<>>)
Literal(s) == El("Literal", s, NoCustom, "", <<>>)
Custom(c) == El("Custom", "", c, "", <<>>)
Registered(c) == El("Registered", "", c, "", <<>>)
Rc(e) == El("Rc", "", NoCustom, "", <<e>>)
Borrowed(e) == El("Borrowed", "", NoCustom, "", <<e>>)
ElementAppend(con, t) == El("Append", "", NoCustom, con, t)
ElementPush(con, t) == El("Push", "", NoCustom, con, t)
ElementNested(con, t) == El("Nested", "", NoCustom, con, t)

----------------------------------------------------------------------------
(* Calls *)

\* A call: the method and its arguments (an element, a token tree or an
\* iterator, a position, the builder's result); the ones a method does not
\* take are None, <<>>, 0 and TRUE.
Op(name, elem, tokens, pos, ok) ==
    [name |-> name, elem |-> elem, tokens |-> tokens, pos |-> pos, ok |-> ok]

\* A builder closure handed to try_push_into / try_nested_into: the elements
\* it appends to the fresh Tokens it is given, and whether it returns Ok.
Builder(appends, ok) == [ok |-> ok, appends |-> appends]

----------------------------------------------------------------------------
(* Tokens: the builder methods as functions from self.elements (and the   *)
(* arguments) to the new self.elements.                                    *)

\* Tokens::new
new == <<>>

\* is_empty looking for content instead of counting the elements
is_empty_of_content(elements) ==
    \A i \in 1..Len(elements) :
        \/ elements[i].kind \in {"Registered", "Spacing", "PushSpacing", "LineSpacing", "None"}
        \/ elements[i].kind \in {"Push", "Nested", "Append"} /\ elements[i].sub = <<>>

\* Tokens::is_empty
is_empty(elements) == Len(elements) = 0

\* nested storing a Push element
nested_as_push(elements, tokens) == Append(elements, ElementPush("Owned", tokens))

\* Tokens::nested
nested(elements, tokens) == Append(elements, ElementNested("Owned", tokens))

\* Tokens::nested_ref
nested_ref(elements, tokens) == Append(elements, ElementNested("Borrowed", tokens))

\* push storing an Append element: no line start
push_as_append(elements, tokens) == Append(elements, ElementAppend("Owned", tokens))

\* Tokens::push
push(elements, tokens) == Append(elements, ElementPush("Owned", tokens))

\* Tokens::push_ref
push_ref(elements, tokens) == Append(elements, ElementPush("Borrowed", tokens))

\* push_unless_empty without the is_empty check
push_unless_empty_unchecked(elements, tokens) ==
    Append(elements, ElementPush("Owned", tokens))

\* Tokens::push_unless_empty
push_unless_empty(elements, tokens) ==
    IF is_empty(tokens) THEN elements
    ELSE Append(elements, ElementPush("Owned", tokens))

\* Tokens::insert (Vec::insert shifts the elements from pos on; pos is 0-based)
insert(elements, pos, element) ==
    SubSeq(elements, 1, pos) \o <<element>> \o SubSeq(elements, pos + 1, Len(elements))

\* append without the None filter
append_unfiltered(elements, element) == Append(elements, element)

\* Tokens::append
append(elements, element) ==
    IF None # element THEN Append(elements, element) ELSE elements

\* Tokens::append_ref
append_ref(elements, element) == Append(elements, Borrowed(element))

\* Tokens::append_unless_empty
append_unless_empty(elements, tokens) ==
    IF is_empty(tokens) THEN elements
    ELSE Append(elements, ElementAppend("Owned", tokens))

\* Tokens::extend
extend(elements, it) == elements \o it

\* register storing a rendered Custom element
register_rendered(elements, custom) == Append(elements, Custom(custom))

\* Tokens::register
register(elements, custom) == Append(elements, Registered(custom))

\* The builder closure handed to try_push_into / try_nested_into: it appends
\* the elements of b.appends to the fresh Tokens it is given, one by one, and
\* then returns Ok (b.ok) or Err.
RECURSIVE RunBuilder(_, _)
RunBuilder(t, appends) ==
    IF appends = <<>> THEN t
    ELSE RunBuilder(append(t, Head(appends)), Tail(appends))

\* try_nested_into attaching the sub-tree before looking at the builder's result
try_nested_into_attach_first(elements, b) ==
    LET t == RunBuilder(new, b.appends) IN
    <<nested(elements, t), IF b.ok THEN "Ok" ELSE "Err">>

\* Tokens::try_nested_into; the value is <<new self.elements, returned Result>>
try_nested_into(elements, b) ==
    LET t == RunBuilder(new, b.appends) IN
    IF ~b.ok THEN <<elements, "Err">>
    ELSE <<nested(elements, t), "Ok">>

\* Tokens::try_push_into
try_push_into(elements, b) ==
    LET t == RunBuilder(new, b.appends) IN
    IF ~b.ok THEN <<elements, "Err">>
    ELSE <<push(elements, t), "Ok">>

\* Tokens::join: filter out None, then the first element, then for every
\* further one a clone of the separator and the element
RECURSIVE JoinLoop(_, _, _)
JoinLoop(out, it, element) ==
    IF it = <<>> THEN out
    ELSE JoinLoop(out \o <<element, Head(it)>>, Tail(it), element)

\* join without the None filter
join_unfiltered(elements, element) ==
    IF elements = <<>> THEN <<>>
    ELSE JoinLoop(<<Head(elements)>>, Tail(elements), element)

\* join putting the separator after every element, the last one too
RECURSIVE JoinTrailingLoop(_, _, _)
JoinTrailingLoop(out, it, element) ==
    IF it = <<>> THEN out
    ELSE JoinTrailingLoop(out \o <<Head(it), element>>, Tail(it), element)

join_trailing(elements, element) ==
    JoinTrailingLoop(<<>>, SelectSeq(elements, LAMBDA e : e # None), element)

join(elements, element) ==
    LET it == SelectSeq(elements, LAMBDA e : e # None) IN
    IF it = <<>> THEN <<>>
    ELSE JoinLoop(<<Head(it)>>, Tail(it), element)

\* Tokens::join_spacing
join_spacing(elements) == join(elements, Spacing)

\* join_line_spacing joining with PushSpacing
join_push_spacing(elements) == join(elements, PushSpacing)

\* Tokens::join_line_spacing
join_line_spacing(elements) == join(elements, LineSpacing)

\* IntoTokens for Element
into_tokens_element(element) == <<element>>

\* FromIterator<Element>
from_iter(it) == it

\* FromIterator<&Element>
from_iter_ref(it) == [i \in 1..Len(it) |-> Borrowed(it[i])]

----------------------------------------------------------------------------
(* walk_custom: the iterator state is its queue of elements. *)

\* Tokens::walk_custom
walk_custom(elements) == [queue |-> elements]

\* WalkCustom::next that does not look into Nested sub-trees
RECURSIVE WalkCustomNextSkipNested(_)
WalkCustomNextSkipNested(queue) ==
    IF queue = <<>> THEN [queue |-> <<>>, some |-> FALSE, item |-> NoCustom]
    ELSE
        LET next == Head(queue)
            rest == Tail(queue)
        IN  CASE next.kind \in {"Rc", "Borrowed", "Push", "Append"} ->
                    WalkCustomNextSkipNested(rest \o next.sub)
              [] next.kind \in {"Custom", "Registered"} ->
                    [queue |-> rest, some |-> TRUE, item |-> next.custom]
              [] OTHER -> WalkCustomNextSkipNested(rest)

\* WalkCustom::next that puts the elements of a wrapper at the front of the
\* queue
RECURSIVE WalkCustomNextDepthFirst(_)
WalkCustomNextDepthFirst(queue) ==
    IF queue = <<>> THEN [queue |-> <<>>, some |-> FALSE, item |-> NoCustom]
    ELSE
        LET next == Head(queue)
            rest == Tail(queue)
        IN  CASE next.kind \in {"Rc", "Borrowed", "Push", "Nested", "Append"} ->
                    WalkCustomNextDepthFirst(next.sub \o rest)
              [] next.kind \in {"Custom", "Registered"} ->
                    [queue |-> rest, some |-> TRUE, item |-> next.custom]
              [] OTHER -> WalkCustomNextDepthFirst(rest)

\* WalkCustom::next: pop from the front until a custom element is met.
\* The value is [queue, some, item]: the queue the iterator is left with, and
\* Some(item) or Option::None.
RECURSIVE WalkCustomNext(_)
WalkCustomNext(queue) ==
    IF queue = <<>> THEN [queue |-> <<>>, some |-> FALSE, item |-> NoCustom]
    ELSE
        LET next == Head(queue)
            rest == Tail(queue)
        IN  CASE next.kind \in {"Rc", "Borrowed"} ->
                    WalkCustomNext(rest \o next.sub)
              [] next.kind \in {"Push", "Nested", "Append"} ->
                    WalkCustomNext(rest \o next.sub)
              [] next.kind = "Custom" ->
                    [queue |-> rest, some |-> TRUE, item |-> next.custom]
              [] next.kind = "Registered" ->
                    [queue |-> rest, some |-> TRUE, item |-> next.custom]
              [] OTHER -> WalkCustomNext(rest)

\* Iterating a WalkCustom to its end (for custom in tokens.walk_custom()):
\* the sequence of the items yielded.
RECURSIVE WalkCollect(_, _)
WalkCollect(queue, acc) ==
    LET n == WalkCustomNext(queue) IN
    IF n.some THEN WalkCollect(n.queue, Append(acc, n.item)) ELSE acc

WalkAll(elements) == WalkCollect(walk_custom(elements).queue, <<>>)

----------------------------------------------------------------------------
(* Swift block comments, src/src/swift/comment.rs *)

\* the loop over the lines of a comment: push(" * "), append(line)
RECURSIVE BlockCommentLines(_, _)
BlockCommentLines(t, lines) ==
    IF lines = <<>> THEN t
    ELSE BlockCommentLines(append(push(t, <<Literal(" * ")>>), Literal(Head(lines))),
                           Tail(lines))

\* BlockComment closing with a LineSpacing element
BlockCommentLineSpacing(lines) ==
    IF lines = <<>> THEN new
    ELSE append(push(BlockCommentLines(push(new, <<Literal("/**")>>), lines),
                     <<Literal(" */")>>),
                LineSpacing)

\* BlockComment::into_tokens
BlockComment(lines) ==
    IF lines = <<>> THEN new
    ELSE push(push(BlockCommentLines(push(new, <<Literal("/**")>>), lines),
                   <<Literal(" */")>>),
              <<PushSpacing>>)

----------------------------------------------------------------------------
(* The Formatter: the cursor of one render pass.                           *)
(*   out    - the text written so far                                      *)
(*   indent - the current indentation depth                                *)
(*   space  - a space is needed before the next text                       *)
(*   line   - the next text must start on a fresh line                     *)
(*   blank  - a blank line is needed before the next text                  *)

IndentUnit == "  "

\* Formatter::new: nothing written, depth 0; the output starts on a fresh line
NewFormatter ==
    [out |-> <<>>, indent |-> 0, space |-> FALSE, line |-> TRUE, blank |-> FALSE]

Indentation(n) == [i \in 1..n |-> IndentUnit]

\* the current line is empty: nothing written yet, or a newline written last
current_line_empty(f) == f.out = <<>> \/ f.out[Len(f.out)] = "\n"

\* Formatter::write_str: the pending line break (with the indentation of the
\* new line) or the pending space comes first, then the text; the pending
\* flags are consumed.  A line that is empty already is not broken again, and
\* nothing written yet means no newline at all.
write_str(f, s) ==
    LET newlines == IF f.out = <<>> THEN <<>>
                    ELSE IF f.blank
                    THEN (IF current_line_empty(f) THEN <<"\n">> ELSE <<"\n", "\n">>)
                    ELSE IF current_line_empty(f) THEN <<>> ELSE <<"\n">>
        lead == IF f.line \/ f.blank THEN newlines \o Indentation(f.indent)
                ELSE IF f.space THEN <<" ">>
                ELSE <<>>
    IN  [f EXCEPT !.out = f.out \o lead \o <<s>>,
                  !.space = FALSE, !.line = FALSE, !.blank = FALSE]

\* new_line_unless_empty that leaves the current line open
new_line_never(f) == f

\* Formatter::new_line_unless_empty: the current line is closed unless it is
\* empty.  It closes the last line of a Nested scope that wrote text, and the
\* last line of a file.
new_line_unless_empty(f) ==
    IF current_line_empty(f) THEN f ELSE [f EXCEPT !.out = f.out \o <<"\n">>]

\* Formatter::indent / Formatter::unindent
indent(f) == [f EXCEPT !.indent = f.indent + 1]
unindent(f) == [f EXCEPT !.indent = IF f.indent > 0 THEN f.indent - 1 ELSE 0]

\* Java::format (Custom::format for Java)
RECURSIVE JavaFormat(_, _, _, _)
JavaFormatArguments(arguments, f, extra, level) ==
    LET RECURSIVE Args(_, _)
        Args(i, g) ==
            IF i > Len(arguments) THEN g
            ELSE LET h == JavaFormat(arguments[i], g, extra, level + 1)
                 IN  Args(i + 1, IF i < Len(arguments) THEN write_str(h, ", ") ELSE h)
    IN  Args(1, f)

JavaFormat(java, f, extra, level) ==
    CASE java.tag = "Primitive" ->
            IF level > 0 THEN write_str(f, java.boxed) ELSE write_str(f, java.name)
      [] java.tag = "Class" ->
            LET file_package == extra.package
                imported_ == IF java.name \in DOMAIN extra.imported
                             THEN <<extra.imported[java.name]>> ELSE <<>>
                pkg == <<java.package>>
                f1 == IF java.package # JAVA_LANG /\ imported_ # pkg /\ file_package # pkg
                      THEN write_str(write_str(f, java.package), SEP)
                      ELSE f
                f2 == write_str(f1, java.name)
            IN  IF java.arguments # <<>>
                THEN write_str(JavaFormatArguments(java.arguments,
                                                   write_str(f2, "<"), extra, level), ">")
                ELSE f2
      [] java.tag = "Local" -> write_str(f, java.name)
      [] OTHER -> f

(* Swift custom items, src/src/swift/mod.rs.  They are records of the shape of
   the Java items: package holds the module of a Name, boxed says whether the
   Option of the module is Some or None, arguments holds the key and the value
   of a Map and the inner type of an Array. *)

\* Swift::Primitive { primitive }
SwiftPrimitive(primitive) ==
    [tag |-> "SwiftPrimitive", package |-> "", name |-> primitive, boxed |-> "",
     arguments |-> <<>>]

\* swift::imported(module, name): Swift::Type, the module Some(module)
swift_imported(module, name) ==
    [tag |-> "Type", package |-> module, name |-> name, boxed |-> "Some",
     arguments |-> <<>>]

\* swift::local(name): Swift::Type, the module None
swift_local(name) ==
    [tag |-> "Type", package |-> "", name |-> name, boxed |-> "None",
     arguments |-> <<>>]

\* swift::map(key, value)
swift_map(key, value) ==
    [tag |-> "Map", package |-> "", name |-> "", boxed |-> "",
     arguments |-> <<key, value>>]

\* swift::array(inner)
swift_array(inner) ==
    [tag |-> "Array", package |-> "", name |-> "", boxed |-> "",
     arguments |-> <<inner>>]

\* Swift::format (Custom::format for Swift)
RECURSIVE SwiftFormat(_, _, _)
SwiftFormat(swift, f, level) ==
    CASE swift.tag = "Type" -> write_str(f, swift.name)
      [] swift.tag = "Map" ->
            LET f1 == write_str(f, "[")
                f2 == SwiftFormat(swift.arguments[1], f1, level + 1)
                f3 == write_str(f2, ": ")
                f4 == SwiftFormat(swift.arguments[2], f3, level + 1)
            IN  write_str(f4, "]")
      [] swift.tag = "Array" ->
            write_str(SwiftFormat(swift.arguments[1], write_str(f, "["), level + 1), "]")
      [] swift.tag = "SwiftPrimitive" -> write_str(f, swift.name)
      [] OTHER -> f

\* Custom::format of the language of the item
CustomFormat(custom, f, extra, level) ==
    IF custom.tag \in {"Type", "Map", "Array", "SwiftPrimitive"}
    THEN SwiftFormat(custom, f, level)
    ELSE JavaFormat(custom, f, extra, level)

\* Element::format and Tokens::format
RECURSIVE FormatElement(_, _, _, _)
RECURSIVE format(_, _, _, _)

FormatElement(e, f, extra, level) ==
    CASE e.kind = "Literal" -> write_str(f, e.text)
      [] e.kind = "Custom" -> CustomFormat(e.custom, f, extra, level)
      [] e.kind \in {"Rc", "Borrowed"} -> FormatElement(e.sub[1], f, extra, level)
      [] e.kind = "Append" -> format(e.sub, f, extra, level)
      [] e.kind = "Push" ->
            format(e.sub, [f EXCEPT !.line = TRUE], extra, level)
      [] e.kind = "Nested" ->
            LET g == format(e.sub, indent([f EXCEPT !.line = TRUE]), extra, level + 1)
                h == IF g.out # f.out THEN new_line_unless_empty(g) ELSE g
            IN  [unindent(h) EXCEPT !.line = TRUE]
      [] e.kind = "Spacing" -> [f EXCEPT !.space = TRUE]
      [] e.kind = "PushSpacing" -> [f EXCEPT !.line = TRUE]
      [] e.kind = "LineSpacing" -> [f EXCEPT !.blank = TRUE]
      [] OTHER -> f   \* Registered, None

\* format writing out, after the last element, the whitespace still pending
RECURSIVE format_flush(_, _, _, _)
format_flush(elements, f, extra, level) ==
    IF elements = <<>>
    THEN IF f.out = <<>> THEN f
         ELSE [f EXCEPT !.out = f.out
                            \o (IF f.blank THEN <<"\n", "\n">>
                                ELSE IF f.line THEN <<"\n">>
                                ELSE IF f.space THEN <<" ">> ELSE <<>>),
                        !.space = FALSE, !.line = FALSE, !.blank = FALSE]
    ELSE format_flush(Tail(elements), FormatElement(Head(elements), f, extra, level),
                      extra, level)

\* Tokens::format: every element in order, on the same formatter
format(elements, f, extra, level) ==
    IF elements = <<>> THEN f
    ELSE format(Tail(elements), FormatElement(Head(elements), f, extra, level),
                extra, level)

----------------------------------------------------------------------------
(* Java files: the imports and the file prologue, src/src/java/mod.rs *)

\* The strings of package and class names in the order of str::cmp, the order
\* of the BTreeSet<(&str, &str)> of Java::imports.
StrOrder ==
    <<"A", "B", "Bar", "Debug", "Foo", "Integer", "String", "java.io", "java.lang", "java.util">>

StrIndex(s) == CHOOSE i \in 1..Len(StrOrder) : StrOrder[i] = s

\* (package, name) < (package, name) in a BTreeSet
ModuleLess(m1, m2) ==
    \/ StrIndex(m1[1]) < StrIndex(m2[1])
    \/ m1[1] = m2[1] /\ StrIndex(m1[2]) < StrIndex(m2[2])

\* the iteration of a BTreeSet: its members in ascending order
RECURSIVE BTreeSetIter(_)
BTreeSetIter(modules) ==
    IF modules = {} THEN <<>>
    ELSE LET least == CHOOSE m \in modules :
                          \A n \in modules : n = m \/ ModuleLess(m, n)
         IN  <<least>> \o BTreeSetIter(modules \ {least})

\* type_imports that does not look at the arguments of a class
type_imports_shallow(java, modules) ==
    IF java.tag = "Class" THEN modules \cup {<<java.package, java.name>>} ELSE modules

\* Java::type_imports: the class and, before it, the classes of its arguments
RECURSIVE type_imports(_, _)
type_imports(java, modules) ==
    IF java.tag = "Class"
    THEN LET RECURSIVE Args(_, _)
             Args(i, acc) ==
                 IF i > Len(java.arguments) THEN acc
                 ELSE Args(i + 1, type_imports(java.arguments[i], acc))
         IN  Args(1, modules) \cup {<<java.package, java.name>>}
    ELSE modules

\* for custom in tokens.walk_custom() { Self::type_imports(custom, &mut modules) }
RECURSIVE CollectModules(_, _)
CollectModules(customs, modules) ==
    IF customs = <<>> THEN modules
    ELSE CollectModules(Tail(customs), type_imports(Head(customs), modules))

\* extra.imported left as it is
ImportedInsertNothing(imported_, name, package) == imported_

\* extra.imported.insert(name, package)
ImportedInsert(imported_, name, package) ==
    [n \in (DOMAIN imported_) \cup {name} |-> IF n = name THEN package ELSE imported_[n]]

\* toks!("import ", package, SEP, name, ";")
ImportLine(package, name) ==
    <<Literal("import "), Literal(package), Literal(SEP), Literal(name), Literal(";")>>

\* the loop of imports without the check of the names imported already
RECURSIVE ImportsLoopEveryName(_, _, _)
ImportsLoopEveryName(modules, out, extra) ==
    IF modules = <<>> THEN <<out, extra>>
    ELSE LET package == Head(modules)[1]
             name == Head(modules)[2]
         IN  IF package = JAVA_LANG
             THEN ImportsLoopEveryName(Tail(modules), out, extra)
             ELSE IF <<package>> = extra.package
             THEN ImportsLoopEveryName(Tail(modules), out, extra)
             ELSE ImportsLoopEveryName(Tail(modules),
                              push(out, ImportLine(package, name)),
                              [extra EXCEPT !.imported =
                                   ImportedInsert(extra.imported, name, package)])

\* the loop of imports without the java.lang and file package checks
RECURSIVE ImportsLoopEveryPackage(_, _, _)
ImportsLoopEveryPackage(modules, out, extra) ==
    IF modules = <<>> THEN <<out, extra>>
    ELSE LET package == Head(modules)[1]
             name == Head(modules)[2]
         IN  IF name \in DOMAIN extra.imported
             THEN ImportsLoopEveryPackage(Tail(modules), out, extra)
             ELSE ImportsLoopEveryPackage(Tail(modules),
                              push(out, ImportLine(package, name)),
                              [extra EXCEPT !.imported =
                                   ImportedInsert(extra.imported, name, package)])

\* the loop of Java::imports over the sorted modules; the value is
\* <<out, extra>>
RECURSIVE ImportsLoop(_, _, _)
ImportsLoop(modules, out, extra) ==
    IF modules = <<>> THEN <<out, extra>>
    ELSE LET package == Head(modules)[1]
             name == Head(modules)[2]
         IN  IF name \in DOMAIN extra.imported
             THEN ImportsLoop(Tail(modules), out, extra)
             ELSE IF package = JAVA_LANG
             THEN ImportsLoop(Tail(modules), out, extra)
             ELSE IF <<package>> = extra.package
             THEN ImportsLoop(Tail(modules), out, extra)
             ELSE ImportsLoop(Tail(modules),
                              push(out, ImportLine(package, name)),
                              [extra EXCEPT !.imported =
                                   ImportedInsert(extra.imported, name, package)])

\* imports that imports a name from every package it comes from
imports_every_name(tokens, extra) ==
    LET modules == CollectModules(WalkAll(tokens), {}) IN
    IF modules = {} THEN <<FALSE, <<>>, extra>>
    ELSE <<TRUE>> \o ImportsLoopEveryName(BTreeSetIter(modules), new, extra)

\* imports that also imports java.lang and the package of the file
imports_every_package(tokens, extra) ==
    LET modules == CollectModules(WalkAll(tokens), {}) IN
    IF modules = {} THEN <<FALSE, <<>>, extra>>
    ELSE <<TRUE>> \o ImportsLoopEveryPackage(BTreeSetIter(modules), new, extra)

\* Java::imports; the value is <<is Some, the import lines, extra afterwards>>
imports(tokens, extra) ==
    LET modules == CollectModules(WalkAll(tokens), {}) IN
    IF modules = {} THEN <<FALSE, <<>>, extra>>
    ELSE <<TRUE>> \o ImportsLoop(BTreeSetIter(modules), new, extra)

\* write_file that puts the body ahead of the imports
write_file_body_first(tokens, f, extra, level) ==
    LET t1 == IF extra.package # <<>>
              THEN push(new, <<Literal("package "), Literal(extra.package[1]),
                               Literal(";")>>)
              ELSE new
        i == imports(tokens, extra)
        t2 == push_ref(t1, tokens)
        t3 == IF i[1] THEN push(t2, i[2]) ELSE t2
    IN  <<format(join_line_spacing(t3), f, i[3], level), i[3]>>

\* Java::write_file; the value is <<formatter afterwards, extra afterwards>>
write_file(tokens, f, extra, level) ==
    LET t1 == IF extra.package # <<>>
              THEN push(new, <<Literal("package "), Literal(extra.package[1]),
                               Literal(";")>>)
              ELSE new
        i == imports(tokens, extra)
        t2 == IF i[1] THEN push(t1, i[2]) ELSE t1
        t3 == push_ref(t2, tokens)
    IN  <<format(join_line_spacing(t3), f, i[3], level), i[3]>>

\* Tokens::to_file_with: write_file on a new formatter, then the last line is
\* closed; the value is <<the text, extra afterwards>>
to_file_with(elements, extra) ==
    LET r == write_file(elements, NewFormatter, extra, 0)
    IN  <<new_line_unless_empty(r[1]).out, r[2]>>

\* Tokens::to_file
to_file(elements) == to_file_with(elements, DefaultExtra)

\* to_string going through write_file
to_string_with_prologue(elements, extra) == to_file_with(elements, extra)[1]

\* Tokens::to_string_with: a new formatter, level 0, the text written
to_string_with(elements, extra) == format(elements, NewFormatter, extra, 0).out

\* Tokens::to_string
to_string(elements) == to_string_with(elements, DefaultExtra)

----------------------------------------------------------------------------
(* Swift files: the imports and the file, src/src/swift/mod.rs *)

\* Swift::Extra = ()
SwiftExtra == <<>>

\* the iteration of a BTreeSet<&str>: its members in ascending order
RECURSIVE StrSetIter(_)
StrSetIter(modules) ==
    IF modules = {} THEN <<>>
    ELSE LET least == CHOOSE m \in modules :
                          \A n \in modules : StrIndex(m) <= StrIndex(n)
         IN  <<least>> \o StrSetIter(modules \ {least})

\* type_imports that does not look into a Map or an Array
SwiftTypeImportsShallow(swift, modules) ==
    IF swift.tag = "Type" /\ swift.boxed = "Some"
    THEN modules \cup {swift.package} ELSE modules

\* Swift::type_imports
RECURSIVE SwiftTypeImports(_, _)
SwiftTypeImports(swift, modules) ==
    CASE swift.tag = "Type" ->
            IF swift.boxed = "Some" THEN modules \cup {swift.package} ELSE modules
      [] swift.tag = "Map" ->
            SwiftTypeImports(swift.arguments[2],
                             SwiftTypeImports(swift.arguments[1], modules))
      [] swift.tag = "Array" -> SwiftTypeImports(swift.arguments[1], modules)
      [] OTHER -> modules

\* for custom in tokens.walk_custom() { Self::type_imports(custom, &mut modules) }
RECURSIVE SwiftCollectModules(_, _)
SwiftCollectModules(customs, modules) ==
    IF customs = <<>> THEN modules
    ELSE SwiftCollectModules(Tail(customs), SwiftTypeImports(Head(customs), modules))

\* for module in modules { s.append("import "); s.append(module); out.push(s) }
RECURSIVE SwiftImportsLoop(_, _)
SwiftImportsLoop(modules, out) ==
    IF modules = <<>> THEN out
    ELSE SwiftImportsLoop(Tail(modules),
             push(out, append(append(new, Literal("import ")), Literal(Head(modules)))))

\* Swift::imports; the value is <<whether it is Some, the tokens of the lines>>
SwiftImports(tokens) ==
    LET modules == SwiftCollectModules(WalkAll(tokens), {})
    IN  IF modules = {} THEN <<FALSE, new>>
        ELSE <<TRUE, SwiftImportsLoop(StrSetIter(modules), new)>>

\* Swift::write_file
SwiftWriteFile(tokens, f, extra, level) ==
    LET i == SwiftImports(tokens)
        t1 == IF i[1] THEN push(new, i[2]) ELSE new
        t2 == push_ref(t1, tokens)
    IN  format(join_line_spacing(t2), f, extra, level)

\* Tokens::to_file for Swift: write_file on a new formatter, then the last
\* line is closed
swift_to_file(elements) ==
    new_line_unless_empty(SwiftWriteFile(elements, NewFormatter, SwiftExtra, 0)).out

----------------------------------------------------------------------------

(* Java interfaces, src/src/java/interface.rs.  A method is the Tokens it
   converts into; modifiers are their names. *)

\* Interface::new(name)
InterfaceNew(name) ==
    [name |-> name, modifiers |-> <<"public">>, methods |-> <<>>, body |-> new,
     extends |-> <<>>, annotations |-> new]

\* Interface::annotation
annotation(i, a) == [i EXCEPT !.annotations = push(i.annotations, a)]

\* Vec<Modifier> as an element: the names of the modifiers, a space between
\* two of them
ModifiersElement(modifiers) ==
    ElementAppend("Owned", join_spacing([k \in 1..Len(modifiers) |-> Literal(modifiers[k])]))

\* for method in self.methods { body.push(method) }
RECURSIVE InterfaceMethodsLoop(_, _)
InterfaceMethodsLoop(body_, methods_) ==
    IF methods_ = <<>> THEN body_
    ELSE InterfaceMethodsLoop(push(body_, Head(methods_)), Tail(methods_))

\* the signature of Interface::into_tokens: sig
InterfaceSignature(i) ==
    LET sig1 == IF i.modifiers # <<>>
                THEN append(append(new, ModifiersElement(i.modifiers)), Literal(" "))
                ELSE new
        sig2 == append(append(sig1, Literal("interface ")), Literal(i.name))
    IN  IF i.extends # <<>>
        THEN append(append(sig2, Literal("extends ")),
                    ElementAppend("Owned", i.extends[1]))
        ELSE sig2

\* Interface::into_tokens
InterfaceIntoTokens(i) ==
    LET s1 == IF ~is_empty(i.annotations) THEN push(new, i.annotations) ELSE new
        s2 == push(s1, RunBuilder(new, <<ElementAppend("Owned", InterfaceSignature(i)),
                                         Literal(" {")>>))
        s3 == nested(s2, join_line_spacing(
                             extend(InterfaceMethodsLoop(new, i.methods), i.body)))
    IN  push(s3, <<Literal("}")>>)

----------------------------------------------------------------------------

(* String literals: Custom::quote_string of Java and of Swift.  A string is
   the sequence of its characters, each a one-character string; the two
   control characters TLA+ cannot write stand under their code points. *)

BEL == "U+0007"
DC4 == "U+0014"

\* the arms of the match of Java::quote_string, a backslash written as it is
JavaQuoteCharRawBackslash(c) ==
    CASE c = "\t" -> <<"\\", "t">>
      [] c = BEL -> <<"\\", "b">>
      [] c = "\n" -> <<"\\", "n">>
      [] c = "\r" -> <<"\\", "r">>
      [] c = DC4 -> <<"\\", "f">>
      [] c = "'" -> <<"\\", "'">>
      [] c = "\"" -> <<"\\", "\"">>
      [] OTHER -> <<c>>

\* the arms of the match of Java::quote_string: what one character writes
JavaQuoteChar(c) ==
    CASE c = "\t" -> <<"\\", "t">>
      [] c = BEL -> <<"\\", "b">>
      [] c = "\n" -> <<"\\", "n">>
      [] c = "\r" -> <<"\\", "r">>
      [] c = DC4 -> <<"\\", "f">>
      [] c = "'" -> <<"\\", "'">>
      [] c = "\"" -> <<"\\", "\"">>
      [] c = "\\" -> <<"\\", "\\">>
      [] OTHER -> <<c>>

\* Java::quote_string: a quote, every character through the match, a quote
RECURSIVE JavaQuoteChars(_)
JavaQuoteChars(input) ==
    IF input = <<>> THEN <<>>
    ELSE JavaQuoteChar(Head(input)) \o JavaQuoteChars(Tail(input))

JavaQuoteString(input) == <<"\"">> \o JavaQuoteChars(input) \o <<"\"">>

\* the arms of the match of Swift::quote_string
SwiftQuoteChar(c) ==
    CASE c = "\t" -> <<"\\", "t">>
      [] c = "\n" -> <<"\\", "n">>
      [] c = "\r" -> <<"\\", "r">>
      [] c = "'" -> <<"\\", "'">>
      [] c = "\"" -> <<"\\", "\"">>
      [] c = "\\" -> <<"\\", "\\">>
      [] OTHER -> <<c>>

\* Swift::quote_string
RECURSIVE SwiftQuoteChars(_)
SwiftQuoteChars(input) ==
    IF input = <<>> THEN <<>>
    ELSE SwiftQuoteChar(Head(input)) \o SwiftQuoteChars(Tail(input))

SwiftQuoteString(input) == <<"\"">> \o SwiftQuoteChars(input) \o <<"\"">>

----------------------------------------------------------------------------
(* The arguments the operations are called with. *)

CLS_A == imported("java.io", "A")

\* elements handed to append / insert / into_tokens
ElementArgs ==
    { None, Literal("a"), Spacing, Custom(CLS_A),
      ElementAppend("Owned", <<ElementNested("Owned", <<Rc(Custom(INTEGER)), LineSpacing>>),
                               Registered(CLS_A)>>) }

\* token trees handed to push / nested / push_unless_empty / append_unless_empty
TokensArgs ==
    { <<>>,
      <<Literal("a")>>,
      <<ElementPush("Owned", <<Literal("a")>>), ElementPush("Owned", <<Literal("b")>>)>> }

\* iterators handed to extend / from_iter
IterArgs ==
    { <<>>, <<Custom(CLS_A), None>>, <<Literal("a"), None, Literal("a")>>,
      <<Custom(CLS_A), Spacing, Registered(INTEGER)>> }

\* builder closures handed to try_push_into / try_nested_into
BuilderArgs ==
    { Builder(a, k) :
        a \in { <<>>,
                 <<Literal("b"), None, ElementNested("Owned", <<Literal("a")>>)>> },
        k \in BOOLEAN }

\* separators handed to join
SeparatorArgs == { Literal(","), None }

CustomArgs == { CLS_A }

\* one call of a builder method: the method, its arguments, the new elements
Call(o, elements, res) ==
    /\ toks' = elements
    /\ op' = o
    /\ before' = toks
    /\ result' = res
    /\ output' = <<>>
    /\ last_extra' = DefaultExtra
    /\ UNCHANGED interface

\* one call of a constructor or conversion: a new Tokens value, not built from
\* the one at hand
Construct(o, elements) ==
    /\ toks' = elements
    /\ op' = o
    /\ before' = <<>>
    /\ result' = "unit"
    /\ output' = <<>>
    /\ last_extra' = DefaultExtra
    /\ UNCHANGED interface

CanGrow == Len(toks) < MaxLen

----------------------------------------------------------------------------
(* The state machine: one Tokens value and the calls made on it. *)

Init ==
    /\ toks = new
    /\ op = Op("new", None, <<>>, 0, TRUE)
    /\ before = <<>>
    /\ result = "unit"
    /\ output = <<>>
    /\ last_extra = DefaultExtra
    /\ interface = InterfaceNew("Foo")

CallNew == Construct(Op("new", None, <<>>, 0, TRUE), new)

CallAppend ==
    \E e \in ElementArgs :
        CanGrow /\ Call(Op("append", e, <<>>, 0, TRUE), append(toks, e), "unit")

CallInsert ==
    \E e \in ElementArgs, pos \in 0..Len(toks) :
        CanGrow /\ Call(Op("insert", e, <<>>, pos, TRUE), insert(toks, pos, e), "unit")

CallPush ==
    \E t \in TokensArgs :
        CanGrow /\ Call(Op("push", None, t, 0, TRUE), push(toks, t), "unit")

CallNested ==
    \E t \in TokensArgs :
        CanGrow /\ Call(Op("nested", None, t, 0, TRUE), nested(toks, t), "unit")

CallPushUnlessEmpty ==
    \E t \in TokensArgs :
        CanGrow /\ Call(Op("push_unless_empty", None, t, 0, TRUE),
                        push_unless_empty(toks, t), "unit")

CallAppendUnlessEmpty ==
    \E t \in TokensArgs :
        CanGrow /\ Call(Op("append_unless_empty", None, t, 0, TRUE),
                        append_unless_empty(toks, t), "unit")

CallTryPushInto ==
    \E b \in BuilderArgs :
        LET r == try_push_into(toks, b) IN
        CanGrow /\ Call(Op("try_push_into", None, b.appends, 0, b.ok), r[1], r[2])

CallTryNestedInto ==
    \E b \in BuilderArgs :
        LET r == try_nested_into(toks, b) IN
        CanGrow /\ Call(Op("try_nested_into", None, b.appends, 0, b.ok), r[1], r[2])

CallExtend ==
    \E it \in IterArgs :
        /\ Len(toks) + Len(it) <= MaxLen
        /\ Call(Op("extend", None, it, 0, TRUE), extend(toks, it), "unit")

CallRegister ==
    \E c \in CustomArgs :
        CanGrow /\ Call(Op("register", Registered(c), <<>>, 0, TRUE),
                        register(toks, c), "unit")

\* join consumes self and returns the joined Tokens
CallJoin ==
    \E e \in SeparatorArgs :
        Len(toks) <= MaxLen /\ Call(Op("join", e, <<>>, 0, TRUE), join(toks, e), "unit")

\* Tokens built by a conversion instead of by new
CallFromIter ==
    \E it \in IterArgs : Construct(Op("from_iter", None, it, 0, TRUE), from_iter(it))

CallFromIterRef ==
    \E it \in IterArgs :
        Construct(Op("from_iter_ref", None, it, 0, TRUE), from_iter_ref(it))

CallIntoTokens ==
    \E e \in ElementArgs :
        Construct(Op("into_tokens", e, <<>>, 0, TRUE), into_tokens_element(e))

\* Display::fmt: render a clone of the tokens with to_string
CallToString ==
    /\ op.name # "to_string"
    /\ output' = to_string(toks)
    /\ op' = Op("to_string", None, <<>>, 0, TRUE)
    /\ before' = toks
    /\ result' = "Ok"
    /\ last_extra' = DefaultExtra
    /\ UNCHANGED interface
    /\ UNCHANGED toks

Next ==
    \/ CallNew
    \/ CallAppend
    \/ CallInsert
    \/ CallPush
    \/ CallNested
    \/ CallPushUnlessEmpty
    \/ CallAppendUnlessEmpty
    \/ CallTryPushInto
    \/ CallTryNestedInto
    \/ CallExtend
    \/ CallRegister
    \/ CallJoin
    \/ CallFromIter
    \/ CallFromIterRef
    \/ CallIntoTokens
    \/ CallToString

Spec == Init /\ [][Next]_vars

----------------------------------------------------------------------------
(* The rendering of whitespace directives: a Tokens value built from        *)
(* literals, Spacing / PushSpacing / LineSpacing, pushed and nested trees   *)
(* and block comments.                                                      *)

\* elements handed to append
FmtElementArgs == { Literal("a"), Literal("b"), Spacing, PushSpacing, LineSpacing }

\* token trees handed to push
FmtPushArgs ==
    { <<>>, <<Literal("b")>>, <<ElementPush("Owned", <<Literal("b")>>)>> }

\* token trees handed to nested
FmtNestedArgs ==
    { <<>>, <<Literal("a")>>, <<Literal("a"), ElementPush("Owned", <<Literal("b")>>)>> }

\* the lines of the comments handed to BlockComment
CommentArgs == { <<>>, <<"c">> }

FmtCanGrow == Len(toks) < MaxFmtLen

FmtAppend ==
    \E e \in FmtElementArgs :
        FmtCanGrow /\ Call(Op("append", e, <<>>, 0, TRUE), append(toks, e), "unit")

FmtPush ==
    \E t \in FmtPushArgs :
        FmtCanGrow /\ Call(Op("push", None, t, 0, TRUE), push(toks, t), "unit")

FmtNested ==
    \E t \in FmtNestedArgs :
        FmtCanGrow /\ Call(Op("nested", None, t, 0, TRUE), nested(toks, t), "unit")

\* s.push_unless_empty(BlockComment(self.comments))
FmtPushComment ==
    \E lines \in CommentArgs :
        FmtCanGrow /\ Call(Op("push_comment", None, BlockComment(lines), 0, TRUE),
                           push_unless_empty(toks, BlockComment(lines)), "unit")

\* body.join_line_spacing()
FmtJoinLineSpacing ==
    /\ op.name # "join_line_spacing"
    /\ Len(toks) > 1
    /\ Call(Op("join_line_spacing", LineSpacing, <<>>, 0, TRUE),
            join_line_spacing(toks), "unit")

FmtNext ==
    \/ FmtAppend
    \/ FmtPush
    \/ FmtNested
    \/ FmtPushComment
    \/ FmtJoinLineSpacing

FmtSpec == Init /\ [][FmtNext]_vars

----------------------------------------------------------------------------
(* Java files: a Tokens value holding Java classes, rendered by to_file     *)
(* and by to_string under a default Extra or an Extra with a package.       *)

CLS_INTEGER == imported("java.lang", "Integer")
CLS_B == imported("java.io", "B")
CLS_OB == imported("java.util", "B")

\* ob.with_arguments(vec![a.clone()])
CLS_OB_A == Class("java.util", "B", <<CLS_A>>)

JavaArgs == { CLS_INTEGER, CLS_A, CLS_B, CLS_OB, CLS_OB_A, INTEGER }

\* custom items handed to register and nested in the file trees
JavaFewArgs == { CLS_B, CLS_OB_A }

\* toks!(integer, a, b, ob, ob_a)
ToksArgs ==
    { <<Custom(CLS_INTEGER), Custom(CLS_A), Custom(CLS_B), Custom(CLS_OB),
        Custom(CLS_OB_A)>> }

ExtraArgs == { DefaultExtra, ExtraNew("java.io"), ExtraNew("java.util") }

\* to_file(self) and to_string(self) consume the Tokens: no call after them
FileCanGrow ==
    /\ op.name \notin {"to_file", "to_string", "write_file"}
    /\ Len(toks) < MaxFileLen

\* toks!(...): a new Tokens, every argument appended
FileToks ==
    \E t \in ToksArgs : Construct(Op("toks", None, t, 0, TRUE), RunBuilder(new, t))

FileAppend ==
    \E c \in JavaArgs :
        FileCanGrow /\ Call(Op("append", Custom(c), <<>>, 0, TRUE),
                            append(toks, Custom(c)), "unit")

FileRegister ==
    \E c \in JavaFewArgs :
        FileCanGrow /\ Call(Op("register", Registered(c), <<>>, 0, TRUE),
                            register(toks, c), "unit")

FileNested ==
    \E c \in JavaFewArgs :
        FileCanGrow /\ Call(Op("nested", None, <<Custom(c)>>, 0, TRUE),
                            nested(toks, <<Custom(c)>>), "unit")

FileJoinSpacing ==
    /\ op.name \in {"toks", "append"}
    /\ Len(toks) > 1
    /\ Call(Op("join_spacing", Spacing, <<>>, 0, TRUE), join_spacing(toks), "unit")

\* a render of the tree: what it wrote, the Extra it leaves
Render(name, text, extra) ==
    /\ op.name \notin {"to_file", "to_string", "write_file"}
    /\ output' = text
    /\ last_extra' = extra
    /\ UNCHANGED interface
    /\ op' = Op(name, None, <<>>, 0, TRUE)
    /\ before' = toks
    /\ result' = "Ok"
    /\ UNCHANGED toks

\* Tokens::to_file_with (to_file for the default Extra)
FileToFile ==
    \E e \in ExtraArgs :
        LET r == to_file_with(toks, e) IN Render("to_file", r[1], r[2])

\* Tokens::to_string_with (to_string for the default Extra): Java::format
\* reads the Extra and leaves it as it is
FileToString ==
    \E e \in ExtraArgs : Render("to_string", to_string_with(toks, e), e)

\* the tree of a second file written with the Extra of the first
SecondToksArgs == { <<Custom(CLS_B), Custom(CLS_A)>> }

\* Java::write_file once more, on the same tree or on another one, with the
\* Extra the first write_file left
FileWriteFileAgain ==
    /\ op.name = "to_file"
    /\ \E t \in SecondToksArgs \cup {toks} :
          LET r == write_file(t, NewFormatter, last_extra, 0) IN
              /\ output' = r[1].out
              /\ last_extra' = r[2]
              /\ UNCHANGED interface
              /\ op' = Op("write_file", None, t, 0, TRUE)
              /\ before' = toks
              /\ result' = "Ok"
              /\ UNCHANGED toks

FileNext ==
    \/ FileToks
    \/ FileAppend
    \/ FileRegister
    \/ FileNested
    \/ FileJoinSpacing
    \/ FileToFile
    \/ FileToString
    \/ FileWriteFileAgain

FileSpec == Init /\ [][FileNext]_vars

----------------------------------------------------------------------------
(* The string literals: a string grows by one character at a time and is
   quoted by Java::quote_string or by Swift::quote_string; before holds the
   input, output what was written. *)

\* every character with an arm of its own in one of the two matches, and two
\* characters without
CharArgs == {"\t", "\n", "\r", "'", "\"", "\\", BEL, DC4, "n", "b"}

\* the input of test_string
HelloWorld == <<"h", "e", "l", "l", "o", " ", "\n", " ", "w", "o", "r", "l", "d">>

QuoteStep(name, input, text) ==
    /\ op' = Op(name, None, <<>>, 0, TRUE)
    /\ before' = input
    /\ output' = text
    /\ result' = "Ok"
    /\ UNCHANGED <<toks, last_extra, interface>>

QuoteInput ==
    \E c \in CharArgs :
        /\ Len(before) < MaxQuoteLen
        /\ QuoteStep("input", before \o <<c>>, <<>>)

QuoteHelloWorld ==
    /\ op.name = "new"
    /\ QuoteStep("input", HelloWorld, <<>>)

JavaQuote ==
    /\ op.name \in {"new", "input"}
    /\ QuoteStep("java_quote_string", before, JavaQuoteString(before))

SwiftQuote ==
    /\ op.name \in {"new", "input"}
    /\ QuoteStep("swift_quote_string", before, SwiftQuoteString(before))

QuoteNext ==
    \/ QuoteInput
    \/ QuoteHelloWorld
    \/ JavaQuote
    \/ SwiftQuote

QuoteSpec == Init /\ [][QuoteNext]_vars

----------------------------------------------------------------------------

(* The Swift files: trees of Swift types, src/src/swift/mod.rs, rendered by
   to_file. *)

SWIFT_DEBUG == swift_imported("Foo", "Debug")
SWIFT_STRING == swift_local("String")

\* the types of test_imported, test_array and test_map, a second module, a
\* type nested two deep and a primitive
SwiftArgs ==
    { SWIFT_DEBUG,
      swift_imported("Bar", "Debug"),
      SWIFT_STRING,
      swift_array(SWIFT_DEBUG),
      swift_map(SWIFT_STRING, SWIFT_DEBUG),
      swift_map(swift_imported("Foo", "String"), swift_array(swift_imported("Bar", "Debug"))),
      SwiftPrimitive("Int") }

SwiftFewArgs == { SWIFT_STRING, swift_map(SWIFT_STRING, swift_imported("Bar", "Debug")) }

SwiftCanGrow == op.name \notin {"to_file"} /\ Len(toks) < MaxSwiftLen

\* toks.append(swift)
SwiftAppend ==
    /\ SwiftCanGrow
    /\ \E c \in SwiftArgs :
          Call(Op("append", Custom(c), <<>>, 0, TRUE), append(toks, Custom(c)), "unit")

\* toks.push(toks!(swift))
SwiftPush ==
    /\ SwiftCanGrow
    /\ \E c \in SwiftArgs :
          Call(Op("push", None, <<Custom(c)>>, 0, TRUE), push(toks, <<Custom(c)>>), "unit")

\* toks.nested(toks!(swift))
SwiftNested ==
    /\ SwiftCanGrow
    /\ \E c \in SwiftFewArgs :
          Call(Op("nested", None, <<Custom(c)>>, 0, TRUE),
               nested(toks, <<Custom(c)>>), "unit")

\* Tokens::to_file
SwiftToFile == Render("to_file", swift_to_file(toks), last_extra)

SwiftNext ==
    \/ SwiftAppend
    \/ SwiftPush
    \/ SwiftNested
    \/ SwiftToFile

SwiftSpec == Init /\ [][SwiftNext]_vars

----------------------------------------------------------------------------

(* The Java primitives: trees of primitives and of classes with primitives in
   their generic arguments, at top level and inside Nested scopes, rendered by
   to_string. *)

LONG == Primitive("long", "Long")

\* List<int> and Map<long, List<int>> as the code is handed them
LIST_OF_INTEGER == Class("java.util", "List", <<INTEGER>>)
MAP_OF_LONG_LIST == Class("java.util", "Map", <<LONG, LIST_OF_INTEGER>>)

LevelArgs == { INTEGER, LONG, LIST_OF_INTEGER, MAP_OF_LONG_LIST }

\* the trees handed to nested: a primitive one and two scopes deep, a class
LevelNestedArgs ==
    { <<Custom(INTEGER)>>,
      <<Custom(LONG), ElementNested("Owned", <<Custom(INTEGER)>>)>>,
      <<Custom(LIST_OF_INTEGER)>> }

LevelCanGrow == op.name # "to_string" /\ Len(toks) < MaxLevelLen

LevelAppend ==
    /\ LevelCanGrow
    /\ \E c \in LevelArgs :
          Call(Op("append", Custom(c), <<>>, 0, TRUE), append(toks, Custom(c)), "unit")

LevelPush ==
    /\ LevelCanGrow
    /\ \E c \in LevelArgs :
          Call(Op("push", None, <<Custom(c)>>, 0, TRUE), push(toks, <<Custom(c)>>), "unit")

LevelNested ==
    /\ LevelCanGrow
    /\ \E t \in LevelNestedArgs :
          Call(Op("nested", None, t, 0, TRUE), nested(toks, t), "unit")

LevelToString == Render("to_string", to_string(toks), DefaultExtra)

LevelNext ==
    \/ LevelAppend
    \/ LevelPush
    \/ LevelNested
    \/ LevelToString

LevelSpec == Init /\ [][LevelNext]_vars

----------------------------------------------------------------------------

(* The Java interfaces: an Interface is set up through its public fields and
   annotation(), converted into Tokens and rendered by to_string. *)

NameArgs == { "Foo", "Bar" }

ModifiersArgs == { <<>>, <<"public">> }

\* what an interface extends: one local type, two types
ExtendsArgs ==
    { <<Custom(Local("Baz"))>>, <<Literal("Baz"), Literal(", "), Literal("Qux")>> }

\* the Tokens of a method, of a line of the body, of an annotation
MethodArgs == { <<Literal("void m();")>> }
BodyArgs == { <<Literal("int x();")>> }
AnnotationArgs == { <<Literal("@Api")>> }

InterfaceStep(name, i) ==
    /\ interface' = i
    /\ op' = Op(name, None, <<>>, 0, TRUE)
    /\ UNCHANGED <<toks, before, result, output, last_extra>>

InterfaceOpen == op.name \notin {"into_tokens", "to_string"}

\* Interface::new(name): a new interface, nothing converted or rendered yet
InterfaceCallNew ==
    \E n \in NameArgs :
        /\ interface' = InterfaceNew(n)
        /\ op' = Op("Interface::new", None, <<>>, 0, TRUE)
        /\ toks' = new
        /\ before' = <<>>
        /\ output' = <<>>
        /\ UNCHANGED <<result, last_extra>>

\* i.modifiers = modifiers
InterfaceSetModifiers ==
    /\ InterfaceOpen
    /\ \E m \in ModifiersArgs :
          InterfaceStep("modifiers", [interface EXCEPT !.modifiers = m])

\* i.extends = Some(extends)
InterfaceSetExtends ==
    /\ InterfaceOpen
    /\ \E e \in ExtendsArgs :
          InterfaceStep("extends", [interface EXCEPT !.extends = <<e>>])

\* i.methods.push(method)
InterfacePushMethod ==
    /\ InterfaceOpen
    /\ Len(interface.methods) < MaxInterfaceLen
    /\ \E m \in MethodArgs :
          InterfaceStep("methods", [interface EXCEPT !.methods = Append(@, m)])

\* i.body.push(tokens)
InterfacePushBody ==
    /\ InterfaceOpen
    /\ Len(interface.body) < MaxInterfaceLen
    /\ \E t \in BodyArgs :
          InterfaceStep("body", [interface EXCEPT !.body = push(@, t)])

\* i.annotation(a)
InterfaceAnnotation ==
    /\ InterfaceOpen
    /\ Len(interface.annotations) < MaxInterfaceLen
    /\ \E a \in AnnotationArgs : InterfaceStep("annotation", annotation(interface, a))

\* let t: Tokens<Java> = i.into()
InterfaceInto ==
    /\ InterfaceOpen
    /\ toks' = InterfaceIntoTokens(interface)
    /\ op' = Op("into_tokens", None, <<>>, 0, TRUE)
    /\ before' = <<>>
    /\ output' = <<>>
    /\ UNCHANGED <<result, last_extra, interface>>

\* t.to_string()
InterfaceToString ==
    /\ op.name = "into_tokens"
    /\ output' = to_string(toks)
    /\ op' = Op("to_string", None, <<>>, 0, TRUE)
    /\ before' = toks
    /\ UNCHANGED <<toks, result, last_extra, interface>>

InterfaceNext ==
    \/ InterfaceCallNew
    \/ InterfaceSetModifiers
    \/ InterfaceSetExtends
    \/ InterfacePushMethod
    \/ InterfacePushBody
    \/ InterfaceAnnotation
    \/ InterfaceInto
    \/ InterfaceToString

InterfaceSpec == Init /\ [][InterfaceNext]_vars

----------------------------------------------------------------------------

(* Helpers of the properties. *)

Last(seq) == seq[Len(seq)]

IsPrefix(p, seq) == Len(p) <= Len(seq) /\ SubSeq(seq, 1, Len(p)) = p

NoStoredNone(elements) == \A i \in 1..Len(elements) : elements[i] # None

\* how often x occurs in seq
Count(seq, x) == Cardinality({i \in 1..Len(seq) : seq[i] = x})

\* the custom items of a tree by structural recursion, in document order
RECURSIVE CustomsOf(_)
CustomsOf(elements) ==
    IF elements = <<>> THEN <<>>
    ELSE LET e == Head(elements)
             here == IF e.kind \in {"Custom", "Registered"} THEN <<e.custom>>
                     ELSE CustomsOf(e.sub)
         IN  here \o CustomsOf(Tail(elements))

\* the tree without its Registered elements, at every depth
RECURSIVE StripRegistered(_)
StripRegistered(elements) ==
    IF elements = <<>> THEN <<>>
    ELSE LET e == Head(elements)
             sub == StripRegistered(e.sub)
         IN  (IF e.kind = "Registered" THEN <<>>
              ELSE IF e.kind \in {"Rc", "Borrowed"} /\ sub = <<>> THEN <<>>
              ELSE <<[e EXCEPT !.sub = sub]>>)
             \o StripRegistered(Tail(elements))

\* the lines of a rendered text, the empty ones left out
RECURSIVE SplitLines(_, _, _)
SplitLines(out, cur, acc) ==
    IF out = <<>> THEN Append(acc, cur)
    ELSE IF Head(out) = "\n" THEN SplitLines(Tail(out), <<>>, Append(acc, cur))
    ELSE SplitLines(Tail(out), Append(cur, Head(out)), acc)

Lines(out) == SelectSeq(SplitLines(out, <<>>, <<>>), LAMBDA l : l # <<>>)

\* the number of indentation units a line starts with
RECURSIVE LeadingIndent(_)
LeadingIndent(l) ==
    IF l # <<>> /\ Head(l) = IndentUnit THEN 1 + LeadingIndent(Tail(l)) ELSE 0

\* the indentation depth of every non-empty line of a rendered text
LineIndents(out) == [i \in 1..Len(Lines(out)) |-> LeadingIndent(Lines(out)[i])]

----------------------------------------------------------------------------
(* Properties of the Tokens container. *)

\* C1: append(x) with x converting to Element::None is a no-op: the element
\* sequence, is_empty() and the rendered output are what they were before.
C1_AppendNoneIsNoOp ==
    (op.name = "append" /\ op.elem = None) =>
        /\ toks = before
        /\ is_empty(toks) = is_empty(before)
        /\ to_string(toks) = to_string(before)

\* C1 witness: append(None) was called on a Tokens holding two elements.
C1_Witness ==
    /\ op.name = "append"
    /\ op.elem = None
    /\ Len(before) = 2

FilteringOps ==
    { "new", "append", "push", "nested", "push_unless_empty", "append_unless_empty",
      "try_push_into", "try_nested_into", "register" }

C3_JoinInterposes ==
    op.name = "join" =>
        LET es == SelectSeq(before, LAMBDA e : e # None)
            m == Len(es)
        IN  /\ Len(toks) = IF m = 0 THEN 0 ELSE 2 * m - 1
            /\ \A i \in 1..m : toks[2 * i - 1] = es[i]
            /\ \A i \in 1..(m - 1) : toks[2 * i] = op.elem

\* C3 witness: a join of three elements, two of them equal.
C3_Witness ==
    /\ op.name = "join"
    /\ Len(before) = 3
    /\ NoStoredNone(before)
    /\ before[1] = before[2]
    /\ Len(toks) = 5

\* C4: try_push_into / try_nested_into are all-or-nothing: on Err the parent is
\* unchanged and Err is returned; on Ok exactly one Push (Nested) element
\* holding the built sub-tree is appended.
C4_TryIntoAllOrNothing ==
    op.name \in {"try_push_into", "try_nested_into"} =>
        IF ~op.ok
        THEN result = "Err" /\ toks = before
        ELSE /\ result = "Ok"
             /\ Len(toks) = Len(before) + 1
             /\ IsPrefix(before, toks)
             /\ Last(toks).kind = (IF op.name = "try_push_into" THEN "Push" ELSE "Nested")
             /\ Last(toks).sub = RunBuilder(new, op.tokens)

\* C4 witness: the builder of try_nested_into appended something to its
\* sub-tree and then failed, the parent holding elements already.
C4_Witness ==
    /\ op.name = "try_nested_into"
    /\ ~op.ok
    /\ RunBuilder(new, op.tokens) # <<>>
    /\ before # <<>>

\* C5: push_unless_empty / append_unless_empty leave the parent unchanged for
\* an empty tree and append one Push / Append element for a non-empty one;
\* push and nested add an element also for an empty tree.
C5_UnlessEmpty ==
    /\ op.name = "push_unless_empty" =>
          toks = IF op.tokens = <<>> THEN before
                 ELSE Append(before, ElementPush("Owned", op.tokens))
    /\ op.name = "append_unless_empty" =>
          toks = IF op.tokens = <<>> THEN before
                 ELSE Append(before, ElementAppend("Owned", op.tokens))
    /\ op.name \in {"push", "nested"} => Len(toks) = Len(before) + 1

\* C5 witness: push_unless_empty was called with an empty tree on a Tokens
\* holding elements.
C5_Witness ==
    /\ op.name = "push_unless_empty"
    /\ op.tokens = <<>>
    /\ before # <<>>

----------------------------------------------------------------------------
(* Properties of walk_custom, register and is_empty. *)

AllCustoms == { CLS_A, INTEGER }

\* C6: iterating walk_custom() terminates and yields every Custom and every
\* Registered item reachable through Push, Nested, Append, Rc and Borrowed
\* wrappers at any depth, each occurrence once, and nothing else.
C6_WalkYieldsEveryCustomOnce ==
    /\ Len(WalkAll(toks)) = Len(CustomsOf(toks))
    /\ \A c \in AllCustoms : Count(WalkAll(toks), c) = Count(CustomsOf(toks), c)
    /\ \A i \in 1..Len(WalkAll(toks)) : WalkAll(toks)[i] \in AllCustoms

\* C6 witness: a tree with a Custom behind a Borrowed at top level, and an
\* Append holding a Registered item and a Nested with a Custom behind an Rc;
\* the walk yields the three items.
C6_Witness ==
    /\ Len(toks) = 3
    /\ toks[1].kind = "Borrowed"
    /\ toks[1].sub[1].kind = "Custom"
    /\ toks[3].kind = "Append"
    /\ Len(toks[3].sub) = 2
    /\ toks[3].sub[1].kind = "Nested"
    /\ toks[3].sub[1].sub[1].kind = "Rc"
    /\ toks[3].sub[2].kind = "Registered"
    /\ Len(WalkAll(toks)) = 3

\* C7: register(item) appends an element that walk_custom yields and that
\* adds no text: the tree renders the same with and without its registered
\* items.
C7_RegisterWalkedNotRendered ==
    /\ op.name = "register" =>
          /\ toks = Append(before, op.elem)
          /\ op.elem.kind = "Registered"
          /\ Count(WalkAll(toks), op.elem.custom)
                = Count(WalkAll(before), op.elem.custom) + 1
          /\ to_string(toks) = to_string(before)
    /\ to_string(toks) = to_string(StripRegistered(toks))

\* C7 witness: an item was registered in a tree that renders text, and a
\* literal follows a registered item.
C7_Witness ==
    /\ op.name = "register"
    /\ to_string(before) # <<>>
    /\ Len(before) = 2
    /\ before[1].kind = "Registered"
    /\ before[2].kind = "Literal"

\* C8: is_empty() is true exactly when no top-level element is stored, whatever
\* renders: after register, after append of a Spacing and after push / nested
\* of an empty tree the Tokens is not empty.
C8_IsEmptyCountsElements ==
    /\ is_empty(toks) <=> (Len(toks) = 0)
    /\ op.name = "register" => ~is_empty(toks)
    /\ (op.name = "append" /\ op.elem = Spacing) => ~is_empty(toks)
    /\ (op.name \in {"push", "nested"} /\ op.tokens = <<>>) => ~is_empty(toks)

\* C8 witness: a Tokens that holds only a Nested of an empty tree, added by
\* nested: it is not empty and renders no text.
C8_Witness ==
    /\ op.name = "nested"
    /\ op.tokens = <<>>
    /\ before = <<>>
    /\ ~is_empty(toks)
    /\ to_string(toks) = <<>>

----------------------------------------------------------------------------
(* Properties of the rendering pass. *)

\* C10: Nested indentation always unwinds.  The formatter is back at depth 0
\* after the tree; the lines of a sub-tree X added by nested (or built by
\* try_nested_into) are one level deeper than X's own lines, after the lines
\* rendered before; what push adds after a Nested
\* starts at the depth it has on its own; and push("a"), nested(push("a"),
\* push("b")), push("a") renders "a\n  a\n  b\na".
C10_Example ==
    << ElementPush("Owned", <<Literal("a")>>),
       ElementNested("Owned", << ElementPush("Owned", <<Literal("a")>>),
                                 ElementPush("Owned", <<Literal("b")>>) >>),
       ElementPush("Owned", <<Literal("a")>>) >>

C10_NestedUnwinds ==
    /\ format(toks, NewFormatter, DefaultExtra, 0).indent = 0
    /\ (op.name = "nested" \/ (op.name = "try_nested_into" /\ op.ok)) =>
          LET X == IF op.name = "nested" THEN op.tokens ELSE RunBuilder(new, op.tokens)
          IN  LineIndents(to_string(toks)) =
                  LineIndents(to_string(before))
                      \o [i \in 1..Len(LineIndents(to_string(X))) |->
                            LineIndents(to_string(X))[i] + 1]
    /\ (op.name = "push" /\ before # <<>> /\ Last(before).kind = "Nested") =>
          LineIndents(to_string(toks)) =
              LineIndents(to_string(before)) \o LineIndents(to_string(op.tokens))
    /\ toks = C10_Example =>
          to_string(toks) = <<"a", "\n", IndentUnit, "a", "\n", IndentUnit, "b", "\n", "a">>

\* C10 witness: the example tree, its last push made after the Nested.
C10_Witness ==
    /\ toks = C10_Example
    /\ op.name = "push"
    /\ Last(before).kind = "Nested"
    /\ LineIndents(to_string(toks)) = <<0, 1, 1, 0>>

----------------------------------------------------------------------------
(* Properties of the whitespace directives. *)

Directives == { Spacing, PushSpacing, LineSpacing }

Front(seq) == SubSeq(seq, 1, Len(seq) - 1)

\* the last n fragments of a text
Tail_(out, n) == SubSeq(out, Len(out) - n + 1, Len(out))

\* a text without the newline that closes its last line
TrimNewline(out) == IF out # <<>> /\ Last(out) = "\n" THEN Front(out) ELSE out

HasLineSpacing(elements) == \E i \in 1..Len(elements) : elements[i] = LineSpacing

RECURSIVE Collapse(_)
Collapse(elements) ==
    IF /\ Len(elements) >= 2
       /\ Last(elements) \in Directives
       /\ elements[Len(elements) - 1] = Last(elements)
    THEN Collapse(Front(elements))
    ELSE elements

\* a tree without the elements at its end that only ask for a fresh line
RECURSIVE DropFresh(_)
DropFresh(elements) ==
    IF /\ elements # <<>>
       /\ Last(elements) \in { PushSpacing, ElementPush("Owned", <<>>),
                               ElementNested("Owned", <<>>) }
    THEN DropFresh(Front(elements))
    ELSE elements

\* C12: pending whitespace never compounds.  A literal after a run of one
\* directive renders as after a single one (two Spacing: one space); a Push
\* renders the same after PushSpacing, empty Push and empty Nested elements as
\* without them, a Push directly inside a Push as one Push, and a Push after a
\* block comment (which ends with a pushed PushSpacing) one newline below it.
C12_DirectivesDoNotCompound ==
    /\ (op.name = "append" /\ op.elem.kind = "Literal") =>
          /\ to_string(toks) = to_string(Append(Collapse(before), op.elem))
          /\ (Len(before) >= 2 /\ before[1].kind = "Literal"
                /\ \A i \in 2..Len(before) : before[i] = Spacing) =>
                to_string(toks) = <<before[1].text, " ", op.elem.text>>
    /\ op.name = "push" =>
          /\ to_string(toks)
                = to_string(Append(DropFresh(before), ElementPush("Owned", op.tokens)))
          /\ op.tokens = <<ElementPush("Owned", <<Literal("b")>>)>> =>
                to_string(toks)
                    = to_string(Append(before, ElementPush("Owned", <<Literal("b")>>)))
          /\ (DropFresh(before) = <<ElementPush("Owned", <<Literal("b")>>)>>
                /\ op.tokens = <<Literal("b")>>) =>
                to_string(toks) = <<"b", "\n", "b">>
          /\ (before # <<>> /\ Last(before) = ElementPush("Owned", BlockComment(<<"c">>))
                /\ op.tokens = <<Literal("b")>>) =>
                to_string(toks) = to_string(before) \o <<"\n", "b">>

\* C12 witness: two Spacing elements between the literals "a" and "b".
C12_Witness ==
    /\ op.name = "append"
    /\ toks = <<Literal("a"), Spacing, Spacing, Literal("b")>>
    /\ to_string(toks) = <<"a", " ", "b">>

\* C13: whitespace directives after the last literal write nothing.  Appending
\* Spacing, PushSpacing or LineSpacing, or pushing an empty tree, leaves the
\* rendered text as it was, and no rendered text ends with a space, with
\* indentation or with a blank line.
C13_TrailingDirectivesDiscarded ==
    /\ ((op.name = "append" /\ op.elem \in Directives)
          \/ (op.name = "push" /\ op.tokens = <<>>)) =>
          to_string(toks) = to_string(before)
    /\ to_string(toks) # <<>> =>
          /\ Last(to_string(toks)) \notin {" ", IndentUnit}
          /\ Len(to_string(toks)) >= 2 => Tail_(to_string(toks), 2) # <<"\n", "\n">>

\* C13 witness: a LineSpacing appended after a block comment and a literal.
C13_Witness ==
    /\ op.name = "append"
    /\ op.elem = LineSpacing
    /\ Len(before) = 2
    /\ before[1] = ElementPush("Owned", BlockComment(<<"c">>))
    /\ Last(to_string(toks)) = "b"

\* the rendered texts of the sections, the last line of a section and the
\* first line of the next one a blank line apart
RECURSIVE BlankLineJoined(_)
BlankLineJoined(sections) ==
    IF sections = <<>> THEN <<>>
    ELSE IF Len(sections) = 1 THEN to_string(<<sections[1]>>)
    ELSE TrimNewline(to_string(<<sections[1]>>)) \o <<"\n", "\n">>
             \o BlankLineJoined(Tail(sections))

\* C14: a LineSpacing between two pieces of content renders one blank line
\* (two newlines), a PushSpacing one newline; join_line_spacing of sections
\* that all render text renders each section as it renders alone, one blank
\* line between two sections.
C14_LineSpacingIsOneBlankLine ==
    /\ (op.name = "append" /\ op.elem.kind = "Literal" /\ to_string(before) # <<>>) =>
          /\ Last(before) = LineSpacing =>
                to_string(toks)
                    = TrimNewline(to_string(before)) \o <<"\n", "\n", op.elem.text>>
          /\ (Last(before) = PushSpacing /\ ~HasLineSpacing(before)) =>
                to_string(toks)
                    = TrimNewline(to_string(before)) \o <<"\n", op.elem.text>>
    /\ (op.name = "join_line_spacing"
          /\ \A i \in 1..Len(before) : to_string(<<before[i]>>) # <<>>) =>
          to_string(toks) = BlankLineJoined(before)

\* C14 witness: join_line_spacing of three sections that render text, a
\* nested one among them.
C14_Witness ==
    /\ op.name = "join_line_spacing"
    /\ Len(before) = 3
    /\ \A i \in 1..3 : to_string(<<before[i]>>) # <<>>
    /\ before[2].kind = "Nested"
    /\ Len(toks) = 5

----------------------------------------------------------------------------
(* Properties of Java files. *)

\* the classes of the file trees, as (package, name)
AllModules ==
    { <<"java.lang", "Integer">>, <<"java.io", "A">>, <<"java.io", "B">>,
      <<"java.util", "B">> }

\* how often the class m occurs in a Java value, its arguments included
RECURSIVE ClassCount(_, _)
ClassCount(java, m) ==
    IF java.tag # "Class" THEN 0
    ELSE LET RECURSIVE Sum(_)
             Sum(i) == IF i > Len(java.arguments) THEN 0
                       ELSE ClassCount(java.arguments[i], m) + Sum(i + 1)
         IN  (IF <<java.package, java.name>> = m THEN 1 ELSE 0) + Sum(1)

RECURSIVE CountIn(_, _)
CountIn(customs, m) ==
    IF customs = <<>> THEN 0
    ELSE ClassCount(Head(customs), m) + CountIn(Tail(customs), m)

\* the custom items of the Custom elements of a tree: the ones that render
RECURSIVE RenderedCustomsOf(_)
RenderedCustomsOf(elements) ==
    IF elements = <<>> THEN <<>>
    ELSE LET e == Head(elements)
             here == IF e.kind = "Custom" THEN <<e.custom>>
                     ELSE IF e.kind = "Registered" THEN <<>>
                     ELSE RenderedCustomsOf(e.sub)
         IN  here \o RenderedCustomsOf(Tail(elements))

\* the classes of a tree that are neither of java.lang nor of the file package
Candidates(elements, file_package) ==
    { m \in AllModules : /\ CountIn(CustomsOf(elements), m) > 0
                         /\ m[1] # JAVA_LANG
                         /\ <<m[1]>> # file_package }

\* the candidates that no candidate of the same name precedes
FirstOfName(elements, file_package) ==
    { m \in Candidates(elements, file_package) :
        \A n \in Candidates(elements, file_package) :
            n[2] = m[2] => (n = m \/ ModuleLess(m, n)) }

\* the lines of a file that start with "import "
ImportLinesOf(out) == SelectSeq(Lines(out), LAMBDA l : Head(l) = "import ")

\* the (package, name) of every import line, in the order of the lines
ImportsOf(out) ==
    [i \in 1..Len(ImportLinesOf(out)) |->
        <<ImportLinesOf(out)[i][2], ImportLinesOf(out)[i][4]>>]

Range(seq) == { seq[i] : i \in 1..Len(seq) }

\* the text of a file without its package and import lines
RECURSIVE Flatten(_)
Flatten(lines) == IF lines = <<>> THEN <<>> ELSE Head(lines) \o Flatten(Tail(lines))

BodyOf(out) ==
    Flatten(SelectSeq(Lines(out), LAMBDA l : Head(l) \notin {"import ", "package "}))

\* how often a text holds package.name / the fragment name
QualifiedCount(text, m) ==
    Cardinality({ i \in 1..(Len(text) - 2) :
                    text[i] = m[1] /\ text[i + 1] = SEP /\ text[i + 2] = m[2] })

NameCount(text, name) == Cardinality({ i \in 1..Len(text) : text[i] = name })

\* C15: the import block of to_file is sorted and deduplicated, whatever the
\* order and the number of the occurrences in the tree: its lines are
\* "import package.name;", strictly ascending by (package, name), one for
\* every class the tree holds (as an element, a registered item or a generic
\* argument, at any depth) that is to be imported, and no other.
C15_ImportsSortedDistinct ==
    op.name = "to_file" =>
        LET il == ImportsOf(output) IN
        /\ \A i \in 1..Len(il) :
              ImportLinesOf(output)[i] = <<"import ", il[i][1], SEP, il[i][2], ";">>
        /\ \A i \in 1..(Len(il) - 1) : ModuleLess(il[i], il[i + 1])
        /\ Range(il) = FirstOfName(toks, last_extra.package)

\* C15 witness: java.util.B<java.io.A> first, then java.io.B twice; the file
\* imports java.io.A, then java.io.B, once each.
C15_Witness ==
    /\ op.name = "to_file"
    /\ toks = <<Custom(CLS_OB_A), Custom(CLS_B), Custom(CLS_B)>>
    /\ last_extra.package = <<>>
    /\ ImportsOf(output) = << <<"java.io", "A">>, <<"java.io", "B">> >>

\* C16: a class of java.lang or of the package of the file gets no import
\* line in to_file and is written by its name alone, never as package.name.
C16_FilePackageAndJavaLangNotImported ==
    op.name = "to_file" =>
        \A m \in AllModules :
            (m[1] = JAVA_LANG \/ <<m[1]>> = last_extra.package) =>
                /\ m \notin Range(ImportsOf(output))
                /\ QualifiedCount(BodyOf(output), m) = 0
                /\ CountIn(RenderedCustomsOf(toks), m) > 0 =>
                      NameCount(BodyOf(output), m[2]) > 0

\* C16 witness: a file of package java.util holding java.lang.Integer and
\* java.util.B.
C16_Witness ==
    /\ op.name = "to_file"
    /\ toks = <<Custom(CLS_INTEGER), Custom(CLS_OB)>>
    /\ output = <<"package ", "java.util", ";", "\n", "\n", "Integer", "B", "\n">>

\* C17 as stated: every class that is neither of java.lang nor of the file
\* package has an import line, also when a class of the same name from a
\* package sorted earlier is imported.
C17_SameNameStillImported ==
    op.name = "to_file" =>
        Candidates(toks, last_extra.package) \subseteq Range(ImportsOf(output))

\* C17 amended: once a name is imported from one package, a later class (in
\* sorted order) of the same name from another package gets no import line:
\* the import block has at most one line for a name, the one of the first
\* class of that name that is neither of java.lang nor of the file package,
\* and Extra.imported maps the name to that package.
C17_OneImportPerName ==
    op.name = "to_file" =>
        LET il == ImportsOf(output)
            file_package == last_extra.package
        IN  /\ \A i, j \in 1..Len(il) : il[i][2] = il[j][2] => i = j
            /\ \A m \in Candidates(toks, file_package) :
                  m \in Range(il) <=>
                      ~\E n \in Candidates(toks, file_package) :
                            n[2] = m[2] /\ ModuleLess(n, m)
            /\ DOMAIN last_extra.imported = { m[2] : m \in Range(il) }
            /\ \A m \in Range(il) : last_extra.imported[m[2]] = m[1]

\* C17 witness: java.util.B and java.io.B in one file; only java.io.B is
\* imported.
C17_Witness ==
    /\ op.name = "to_file"
    /\ toks = <<Custom(CLS_OB), Custom(CLS_B)>>
    /\ last_extra.package = <<>>
    /\ ImportsOf(output) = << <<"java.io", "B">> >>

\* C18: of two classes of a tree that share the name and differ in the
\* package, the one sorted first has an import line and is written by its
\* name alone, the other one has no import line and is written as
\* package.name wherever it occurs.
C18_SecondRendersQualified ==
    op.name = "to_file" =>
        \A m, n \in AllModules :
            (/\ CountIn(CustomsOf(toks), m) > 0
             /\ CountIn(CustomsOf(toks), n) > 0
             /\ m[2] = n[2]
             /\ ModuleLess(m, n)) =>
                /\ m \in Range(ImportsOf(output))
                /\ QualifiedCount(BodyOf(output), m) = 0
                /\ n \notin Range(ImportsOf(output))
                /\ QualifiedCount(BodyOf(output), n) = CountIn(RenderedCustomsOf(toks), n)

\* the state C18 fails in: a file of package java.util with java.io.B and
\* java.util.B; java.io.B is imported and both classes are written as "B".
C18_FailingState ==
    /\ op.name = "to_file"
    /\ toks = <<Custom(CLS_B), Custom(CLS_OB)>>
    /\ last_extra.package = <<"java.util">>
    /\ output = <<"package ", "java.util", ";", "\n", "\n",
                  "import ", "java.io", SEP, "B", ";", "\n", "\n", "B", "B", "\n">>

\* the import lines as text, a newline between two lines
RECURSIVE ImportSection(_)
ImportSection(il) ==
    IF il = <<>> THEN <<>>
    ELSE <<"import ", Head(il)[1], SEP, Head(il)[2], ";">>
             \o (IF Len(il) > 1 THEN <<"\n">> ELSE <<>>) \o ImportSection(Tail(il))

\* the sections that hold text, a blank line between two of them
RECURSIVE SectionsJoined(_)
SectionsJoined(sections) ==
    IF sections = <<>> THEN <<>>
    ELSE IF Head(sections) = <<>> THEN SectionsJoined(Tail(sections))
    ELSE LET rest == SectionsJoined(Tail(sections))
         IN  Head(sections) \o (IF rest = <<>> THEN <<>> ELSE <<"\n", "\n">> \o rest)

\* C19: to_file writes the package declaration (if Extra.package is set), the
\* import block (if a class is to be imported), the body, in this order, one
\* blank line between two sections that are present, and closes the last line.
C19_SectionsInOrder ==
    op.name = "to_file" =>
        LET package_section == IF last_extra.package = <<>> THEN <<>>
                               ELSE <<"package ", last_extra.package[1], ";">>
            import_section == ImportSection(ImportsOf(output))
            body_section == TrimNewline(to_string_with(toks, last_extra))
            text == SectionsJoined(<<package_section, import_section, body_section>>)
        IN  /\ output = IF text = <<>> THEN <<>> ELSE text \o <<"\n">>
            /\ ImportsOf(output) = <<>> <=> FirstOfName(toks, last_extra.package) = {}

\* C19 witness: a file with a package declaration, two import lines and a
\* body.
C19_Witness ==
    /\ op.name = "to_file"
    /\ last_extra.package = <<"java.util">>
    /\ Len(ImportsOf(output)) = 2
    /\ BodyOf(output) # <<>>
    /\ SubSeq(output, 1, 6) = <<"package ", "java.util", ";", "\n", "\n", "import ">>

\* C20: to_string writes the body only: no package declaration, no import
\* line, nothing recorded in Extra.imported, so every class that is neither
\* of java.lang nor of the package of the Extra is written as package.name;
\* to_file writes the package declaration exactly when the Extra has a
\* package and import lines exactly when it recorded imports, then the body.
C20_ToStringBodyOnly ==
    /\ op.name = "to_string" =>
          /\ NameCount(output, "import ") = 0
          /\ NameCount(output, "package ") = 0
          /\ DOMAIN last_extra.imported = {}
          /\ \A m \in AllModules :
                (m[1] # JAVA_LANG /\ <<m[1]>> # last_extra.package) =>
                    QualifiedCount(output, m) = CountIn(RenderedCustomsOf(toks), m)
    /\ op.name = "to_file" =>
          /\ NameCount(output, "package ") = IF last_extra.package = <<>> THEN 0 ELSE 1
          /\ NameCount(output, "import ") = Cardinality(DOMAIN last_extra.imported)
          /\ BodyOf(output) = BodyOf(to_string_with(toks, last_extra))

\* C20 witness: to_string of the tree of test_imported, joined with spaces,
\* under the default Extra: java.io.A is written with its package.
C20_Witness ==
    /\ op.name = "to_string"
    /\ last_extra = DefaultExtra
    /\ Len(toks) = 9
    /\ SubSeq(output, 1, 6) = <<"Integer", " ", "java.io", SEP, "A", " ">>

----------------------------------------------------------------------------
(* C21: quote_string *)

\* the characters both matches escape
Escaped == {"\t", "\n", "\r", "'", "\"", "\\"}

\* the text between the delimiters
Inner(text) == SubSeq(text, 2, Len(text) - 1)

\* every backslash of the text starts a sequence of two characters and no
\* character outside such a sequence is one of the escaped ones
RECURSIVE WellEscaped(_)
WellEscaped(text) ==
    IF text = <<>> THEN TRUE
    ELSE IF Head(text) = "\\" THEN Len(text) >= 2 /\ WellEscaped(Tail(Tail(text)))
    ELSE Head(text) \notin Escaped /\ WellEscaped(Tail(text))

\* reading the backslash sequences back
Unescape(c) ==
    CASE c = "t" -> "\t"
      [] c = "n" -> "\n"
      [] c = "r" -> "\r"
      [] c = "b" -> BEL
      [] c = "f" -> DC4
      [] OTHER -> c

RECURSIVE Unquote(_)
Unquote(text) ==
    IF text = <<>> THEN <<>>
    ELSE IF Head(text) = "\\" /\ Len(text) >= 2
         THEN <<Unescape(text[2])>> \o Unquote(Tail(Tail(text)))
    ELSE <<Head(text)>> \o Unquote(Tail(text))

\* how many characters of the input are in the set
CountOf(input, set) == Cardinality({i \in 1..Len(input) : input[i] \in set})

\* C21: quote_string of Java and of Swift writes one double quote, the input
\* with every tab, newline, carriage return, quote and backslash turned into a
\* backslash sequence of two characters, and one double quote: between the
\* delimiters no raw newline and no unescaped double quote is left, the input
\* is read back from the output (so two inputs never give one output), and
\* "hello \n world" is written as "\"hello \\n world\"".
C21_QuoteString ==
    op.name \in {"java_quote_string", "swift_quote_string"} =>
        /\ Len(output) >= 2
        /\ output[1] = "\"" /\ Last(output) = "\""
        /\ WellEscaped(Inner(output))
        /\ Len(output) >= 2 + Len(before) + CountOf(before, Escaped)
        /\ Unquote(Inner(output)) = before
        /\ before = HelloWorld =>
              output = <<"\"", "h", "e", "l", "l", "o", " ", "\\", "n", " ",
                         "w", "o", "r", "l", "d", "\"">>

\* a backslash before the letter n, then a newline, quoted by Java
C21_Witness ==
    /\ op.name = "java_quote_string"
    /\ before = <<"\\", "n", "\n">>
    /\ output = <<"\"", "\\", "\\", "n", "\\", "n", "\"">>

----------------------------------------------------------------------------
(* C22: the imports of a Swift file *)

\* the modules of the imported types of a Swift type, by structural recursion
RECURSIVE SwiftModulesOfType(_)
SwiftModulesOfType(swift) ==
    (IF swift.tag = "Type" /\ swift.boxed = "Some" THEN {swift.package} ELSE {})
        \cup UNION { SwiftModulesOfType(swift.arguments[i]) :
                        i \in 1..Len(swift.arguments) }

\* the modules of the imported types of a tree
SwiftModulesOf(elements) ==
    UNION { SwiftModulesOfType(CustomsOf(elements)[i]) :
                i \in 1..Len(CustomsOf(elements)) }

\* the module of every import line of a Swift file, in the order of the lines
SwiftImportsOf(out) ==
    [i \in 1..Len(ImportLinesOf(out)) |-> ImportLinesOf(out)[i][2]]

\* the import lines as text, a newline between two lines
RECURSIVE SwiftImportSection(_)
SwiftImportSection(ms) ==
    IF ms = <<>> THEN <<>>
    ELSE <<"import ", Head(ms)>>
             \o (IF Len(ms) > 1 THEN <<"\n">> ELSE <<>>) \o SwiftImportSection(Tail(ms))

\* C22: Swift to_file writes one line "import M" for every module M of an
\* imported type of the tree, the types inside an Array and inside the key and
\* the value of a Map included, the lines strictly ascending by module name,
\* ahead of the body and one blank line apart from it; local types and
\* primitives add no line and a tree without an imported type gets no import
\* block.
C22_SwiftImports ==
    op.name = "to_file" =>
        LET ms == SwiftImportsOf(output)
            body_section == TrimNewline(to_string(toks))
            text == SectionsJoined(<<SwiftImportSection(ms), body_section>>)
        IN  /\ Range(ms) = SwiftModulesOf(toks)
            /\ \A i \in 1..(Len(ms) - 1) : StrIndex(ms[i]) < StrIndex(ms[i + 1])
            /\ \A i \in 1..Len(ImportLinesOf(output)) : Len(ImportLinesOf(output)[i]) = 2
            /\ output = IF text = <<>> THEN <<>> ELSE text \o <<"\n">>

\* C22 witness: test_map next to an array of a type of module Foo: the two
\* modules, each once, Bar first.
C22_Witness ==
    /\ op.name = "to_file"
    /\ toks = <<ElementPush("Owned", <<Custom(swift_array(SWIFT_DEBUG))>>),
                ElementPush("Owned", <<Custom(swift_map(SWIFT_STRING, SWIFT_DEBUG))>>),
                Custom(swift_map(swift_imported("Foo", "String"),
                                 swift_array(swift_imported("Bar", "Debug"))))>>
    /\ output = <<"import ", "Bar", "\n", "import ", "Foo", "\n", "\n",
                  "[", "Debug", "]", "\n", "[", "String", ": ", "Debug", "]",
                  "[", "String", ": ", "[", "Debug", "]", "]", "\n">>

----------------------------------------------------------------------------
(* C23: boxed and primitive names *)

\* how often the primitive p occurs in the generic arguments of a Java value,
\* at any depth
RECURSIVE ArgumentCount(_, _)
ArgumentCount(java, p) ==
    LET RECURSIVE Sum(_)
        Sum(i) == IF i > Len(java.arguments) THEN 0
                  ELSE (IF java.arguments[i] = p THEN 1 ELSE 0)
                           + ArgumentCount(java.arguments[i], p) + Sum(i + 1)
    IN  Sum(1)

\* how often p occurs in the generic arguments of the rendered items
RECURSIVE BoxedCount(_, _)
BoxedCount(customs, p) ==
    IF customs = <<>> THEN 0
    ELSE ArgumentCount(Head(customs), p) + BoxedCount(Tail(customs), p)

\* how often p is a rendered item itself, outside every argument list
UnboxedCount(customs, p) == Count(customs, p)

\* C23: a Java primitive is written by its boxed name exactly when it sits in
\* a generic argument list and by its primitive name when it is an item of
\* the tree itself, whatever the depth of the Nested scopes around it.
C23_BoxedIffGenericArgument ==
    op.name = "to_string" =>
        \A p \in {INTEGER, LONG} :
            /\ NameCount(output, p.boxed) = BoxedCount(RenderedCustomsOf(toks), p)
            /\ NameCount(output, p.name) = UnboxedCount(RenderedCustomsOf(toks), p)

\* a primitive in one Nested scope, outside every argument list, is written
\* by its boxed name
C23_FailingState ==
    /\ op.name = "to_string"
    /\ toks = <<ElementNested("Owned", <<Custom(INTEGER)>>)>>
    /\ NameCount(output, "Integer") = 1
    /\ NameCount(output, "int") = 0

----------------------------------------------------------------------------
(* C24: the line after a Nested scope *)

\* the first k elements of a tree
Prefix(elements, k) == SubSeq(elements, 1, k)

\* a Nested scope holding elements
NonEmptyNested(e) == e.kind = "Nested" /\ e.sub # <<>>

\* C24: to_string of a tree whose last element is a non-empty Nested scope
\* ends with one newline, after a line of the scope that is indented; a
\* non-empty Nested scope right after another one renders as it renders
\* alone, on the line after the last line of the first: one newline apart;
\* nested("a"); nested("a") renders "  a\n  a\n".
C24_NestedClosesItsLine ==
    /\ (toks # <<>> /\ NonEmptyNested(Last(toks))) =>
          LET out == to_string(toks) IN
              /\ Len(out) >= 3
              /\ Last(out) = "\n"
              /\ out[Len(out) - 1] # "\n"
              /\ Last(LineIndents(out)) >= 1
    /\ \A i \in 1..(Len(toks) - 1) :
          (NonEmptyNested(toks[i]) /\ NonEmptyNested(toks[i + 1])) =>
              /\ Last(to_string(Prefix(toks, i))) = "\n"
              /\ to_string(Prefix(toks, i + 1)) =
                     to_string(Prefix(toks, i)) \o to_string(<<toks[i + 1]>>)
    /\ toks = <<ElementNested("Owned", <<Literal("a")>>),
                ElementNested("Owned", <<Literal("a")>>)>> =>
          to_string(toks) = <<IndentUnit, "a", "\n", IndentUnit, "a", "\n">>

\* C24 witness: two Nested scopes, one after the other, as in the nested!
\* example, then a third one with two lines.
C24_Witness ==
    /\ op.name = "nested"
    /\ Len(toks) = 3
    /\ toks[1] = ElementNested("Owned", <<Literal("a")>>)
    /\ toks[2] = ElementNested("Owned", <<Literal("a")>>)
    /\ to_string(toks) = <<IndentUnit, "a", "\n", IndentUnit, "a", "\n",
                           IndentUnit, "a", "\n", IndentUnit, "b", "\n">>

----------------------------------------------------------------------------
(* C25: the order of walk_custom *)

\* the custom items d wrappers deep, in document order
RECURSIVE CustomsAtDepth(_, _)
CustomsAtDepth(elements, d) ==
    IF elements = <<>> THEN <<>>
    ELSE LET e == Head(elements)
             here == IF e.kind \in {"Custom", "Registered"}
                     THEN (IF d = 0 THEN <<e.custom>> ELSE <<>>)
                     ELSE IF d = 0 THEN <<>> ELSE CustomsAtDepth(e.sub, d - 1)
         IN  here \o CustomsAtDepth(Tail(elements), d)

\* the number of levels of a tree
RECURSIVE Height(_)
Height(elements) ==
    IF elements = <<>> THEN 0
    ELSE LET h == 1 + Height(Head(elements).sub)
             r == Height(Tail(elements))
         IN  IF h > r THEN h ELSE r

\* the custom items level by level, from depth d to the last depth h
RECURSIVE ByLevel(_, _, _)
ByLevel(elements, d, h) ==
    IF d >= h THEN <<>>
    ELSE CustomsAtDepth(elements, d) \o ByLevel(elements, d + 1, h)

\* the custom items that are elements of the tree itself
TopLevelCustoms(elements) ==
    SelectSeq(elements, LAMBDA e : e.kind \in {"Custom", "Registered"})

\* C25: walk_custom yields the custom items level by level: the items behind
\* d wrappers (Push, Nested, Append, Rc, Borrowed) before the items behind
\* d + 1 wrappers, the items of one depth in document order; an item at top
\* level comes before an item inside an earlier sub-tree.
C25_WalkLevelOrder ==
    LET walked == WalkAll(toks) IN
        /\ walked = ByLevel(toks, 0, Height(toks))
        /\ TopLevelCustoms(toks) # <<>> =>
              /\ walked[1] = TopLevelCustoms(toks)[1].custom
              /\ Len(walked) >= Len(TopLevelCustoms(toks))
              /\ \A k \in 1..Len(TopLevelCustoms(toks)) :
                    walked[k] = TopLevelCustoms(toks)[k].custom

\* C25 witness: an Append sub-tree holding a Registered item and, in a Nested
\* behind an Rc, a primitive, then a Custom at top level: the walk yields the
\* item at top level first and the primitive, first in the document, last.
C25_Witness ==
    /\ Len(toks) = 2
    /\ toks[1].kind = "Append"
    /\ toks[2] = Custom(CLS_A)
    /\ CustomsOf(toks) = <<INTEGER, CLS_A, CLS_A>>
    /\ WalkAll(toks) = <<CLS_A, CLS_A, INTEGER>>

----------------------------------------------------------------------------
(* C26: import lines and simple names *)

\* how often the class m is written without its package in the body of a file
BareCount(elements, out, m) ==
    CountIn(RenderedCustomsOf(elements), m) - QualifiedCount(BodyOf(out), m)

\* C26: in the output of Java to_file a class written by its simple name is
\* of java.lang, of the package of the file, or has an import line for its
\* (package, name) in the same output; a class with an import line is written
\* by its simple name at every occurrence.
C26_ImportRenderConsistent ==
    op.name = "to_file" =>
        \A m \in AllModules :
            /\ BareCount(toks, output, m) > 0 =>
                  \/ m[1] = JAVA_LANG
                  \/ <<m[1]>> = last_extra.package
                  \/ m \in Range(ImportsOf(output))
            /\ m \in Range(ImportsOf(output)) =>
                  /\ QualifiedCount(BodyOf(output), m) = 0
                  /\ BareCount(toks, output, m) = CountIn(RenderedCustomsOf(toks), m)

\* C26 witness: a file of package java.io with java.io.A and java.util.B<A>:
\* B is imported, A is of the package of the file, both are written by their
\* simple names.
C26_Witness ==
    /\ op.name = "to_file"
    /\ last_extra.package = <<"java.io">>
    /\ toks = <<Custom(CLS_A), Custom(CLS_OB_A)>>
    /\ output = <<"package ", "java.io", ";", "\n", "\n",
                  "import ", "java.util", SEP, "B", ";", "\n", "\n",
                  "A", "B", "<", "A", ">", "\n">>

----------------------------------------------------------------------------
(* C27: one class per simple name *)

\* C27: in the output of Java to_file two classes of the same simple name and
\* of different packages are never both written by the bare simple name,
\* whether they are imported, of java.lang or of the package of the file.
C27_BareNameDenotesOneClass ==
    op.name = "to_file" =>
        \A m, n \in AllModules :
            (m # n /\ m[2] = n[2]) =>
                ~ (/\ BareCount(toks, output, m) > 0
                   /\ BareCount(toks, output, n) > 0)

\* a file of package java.io with java.io.B and java.util.B: java.util.B is
\* imported, java.io.B is of the package of the file, the body is "BB"
C27_FailingState ==
    /\ op.name = "to_file"
    /\ last_extra.package = <<"java.io">>
    /\ toks = <<Custom(CLS_B), Custom(CLS_OB)>>
    /\ output = <<"package ", "java.io", ";", "\n", "\n",
                  "import ", "java.util", SEP, "B", ";", "\n", "\n",
                  "B", "B", "\n">>

----------------------------------------------------------------------------
(* C28: what Java::imports does to the Extra *)

\* the (package, name) pairs of a map of imported names
ImportedPairs(imported_) == { <<imported_[n], n>> : n \in DOMAIN imported_ }

\* the Extra the first write_file of the tree left, given its package
FirstExtra(elements, package) ==
    to_file_with(elements, [package |-> package, imported |-> <<>>])[2]

\* C28: Java::imports adds to Extra.imported the (name -> package) pairs of
\* the import lines it writes and changes nothing else of the Extra; it
\* writes no line for a name Extra.imported holds already and leaves the
\* entry of that name as it is, so a name has one package; a second
\* write_file of the same tree with the same Extra writes no import line.
C28_ImportsOnlyExtendExtra ==
    /\ op.name = "to_file" =>
          /\ ImportedPairs(last_extra.imported) = Range(ImportsOf(output))
          /\ Len(ImportsOf(output)) = Cardinality(DOMAIN last_extra.imported)
    /\ op.name = "write_file" =>
          LET old == FirstExtra(toks, last_extra.package)
              lines == ImportsOf(output)
          IN  /\ \A n \in DOMAIN old.imported :
                    /\ n \in DOMAIN last_extra.imported
                    /\ last_extra.imported[n] = old.imported[n]
              /\ \A i \in 1..Len(lines) : lines[i][2] \notin DOMAIN old.imported
              /\ \A i, j \in 1..Len(lines) : lines[i][2] = lines[j][2] => i = j
              /\ Range(lines) =
                    ImportedPairs(last_extra.imported) \ ImportedPairs(old.imported)
              /\ op.tokens = toks =>
                    /\ lines = <<>>
                    /\ last_extra = old

\* C28 witness: after a file that imported java.io.B, a second file with
\* java.io.B and java.io.A: only the import line of A is written and only
\* A is added to Extra.imported.
C28_Witness ==
    /\ op.name = "write_file"
    /\ toks = <<Custom(CLS_B)>>
    /\ op.tokens = <<Custom(CLS_B), Custom(CLS_A)>>
    /\ last_extra.package = <<>>
    /\ ImportsOf(output) = << <<"java.io", "A">> >>
    /\ DOMAIN last_extra.imported = {"A", "B"}

----------------------------------------------------------------------------
(* C29: a file whose classes are all suppressed *)

\* the classes of a tree, as (package, name), the registered ones included
ModulesOfTree(elements) == { m \in AllModules : CountIn(CustomsOf(elements), m) > 0 }

\* every class of the tree is of java.lang, of the package of the Extra or of
\* a name the Extra holds as imported
AllSuppressed(elements, extra) ==
    /\ ModulesOfTree(elements) # {}
    /\ \A m \in ModulesOfTree(elements) :
          \/ m[1] = JAVA_LANG
          \/ <<m[1]>> = extra.package
          \/ m[2] \in DOMAIN extra.imported

\* the file without an import section: the package declaration, the body
FileWithoutImports(elements, extra) ==
    LET t1 == IF extra.package # <<>>
              THEN push(new, <<Literal("package "), Literal(extra.package[1]),
                               Literal(";")>>)
              ELSE new
        t2 == push_ref(t1, elements)
    IN  format(join_line_spacing(t2), NewFormatter, extra, 0)

\* C29: when the tree holds classes and every one of them is suppressed, Java
\* to_file writes no import line although imports returns Some of an empty
\* Tokens that write_file pushes, and the output is the output of the file
\* without an import section: one blank line between the package declaration
\* and the body.
C29_SuppressedImportsLeaveNoGap ==
    /\ (op.name = "to_file"
        /\ AllSuppressed(toks, [package |-> last_extra.package, imported |-> <<>>])) =>
          LET i == imports(toks, [package |-> last_extra.package, imported |-> <<>>])
              body == TrimNewline(to_string_with(toks, last_extra))
          IN  /\ i[1] /\ i[2] = <<>>
              /\ NameCount(output, "import ") = 0
              /\ output = new_line_unless_empty(FileWithoutImports(toks, last_extra)).out
              /\ (last_extra.package # <<>> /\ body # <<>>) =>
                    output = <<"package ", last_extra.package[1], ";", "\n", "\n">>
                                 \o body \o <<"\n">>
    /\ (op.name = "write_file"
        /\ AllSuppressed(op.tokens, FirstExtra(toks, last_extra.package))) =>
          /\ NameCount(output, "import ") = 0
          /\ output = FileWithoutImports(op.tokens, last_extra).out

\* C29 witness: a file of package java.util with java.lang.Integer and
\* java.util.B: no import line, one blank line after the package declaration.
C29_Witness ==
    /\ op.name = "to_file"
    /\ last_extra.package = <<"java.util">>
    /\ toks = <<Custom(CLS_INTEGER), Custom(CLS_OB)>>
    /\ output = <<"package ", "java.util", ";", "\n", "\n", "Integer", "B", "\n">>

----------------------------------------------------------------------------
(* C30: the text of a Java interface *)

\* the fragments that are whitespace
Blank == {" ", "\n", IndentUnit}

\* the lines of the body of a rendered interface: after the annotations and
\* the signature, before the closing brace
InterfaceBodyLines(out, i) ==
    SubSeq(Lines(out), Len(i.annotations) + 2, Len(Lines(out)) - 1)

\* the text but for the extends clause: the annotations and the signature up
\* to the name, and from " {" on the body one level deep and "}" on a line
\* of its own; "public interface Foo {\n}" for Interface::new("Foo")
InterfaceFrame ==
    op.name = "to_string" =>
        LET sig == Lines(output)[Len(interface.annotations) + 1]
            mods == IF interface.modifiers = <<>> THEN <<>> ELSE <<"public", " ">>
            body == InterfaceBodyLines(output, interface)
        IN  /\ IsPrefix(mods \o <<"interface ", interface.name>>, sig)
            /\ Last(sig) = " {"
            /\ Len(body) = Len(interface.methods) + Len(interface.body)
            /\ \A k \in 1..Len(body) : LeadingIndent(body[k]) = 1
            /\ Last(Lines(output)) = <<"}">>
            /\ output[Len(output) - 1] = "\n"
            /\ interface = InterfaceNew("Foo") =>
                  output = <<"public", " ", "interface ", "Foo", " {", "\n", "}">>

\* C30: a Java Interface with an extends clause renders the name of the
\* interface and the keyword extends as two words, whitespace between them,
\* then the extended types, " {", the body one level deep and "}" on a line
\* of its own; Interface::new("Foo") renders "public interface Foo {\n}".
C30_InterfaceSignature ==
    /\ InterfaceFrame
    /\ (op.name = "to_string" /\ interface.extends # <<>>) =>
          \E k \in 2..Len(output) :
              /\ output[k] = "extends "
              /\ output[k - 1] \in Blank
              /\ output[k - 2] = interface.name
              /\ SubSeq(output, k + 1, k + Len(to_string(interface.extends[1])))
                     = to_string(interface.extends[1])
              /\ output[k + Len(to_string(interface.extends[1])) + 1] = " {"

\* Interface::new("Foo") extending Baz: the name and the keyword are written
\* without anything between them
C30_FailingState ==
    /\ op.name = "to_string"
    /\ interface = [InterfaceNew("Foo") EXCEPT !.extends = << <<Custom(Local("Baz"))>> >>]
    /\ output = <<"public", " ", "interface ", "Foo", "extends ", "Baz", " {", "\n", "}">>

====
